---- MODULE Spec2Model ----
(***************************************************************************)
(* Per-run event routing of the agent graph runtime (GraphNode.bind,      *)
(* GraphNode.invoke, GraphNode.#invoke, inputReducer, User, Chat Input).  *)
(*                                                                         *)
(* The EventStream is a hot multicast subject: next(e) delivers e         *)
(* synchronously to the observers subscribed when next was called, in     *)
(* subscription order, and a next called from inside an observer is       *)
(* delivered completely before the outer delivery goes on.  The model     *)
(* keeps that call stack explicitly: every frame of `stack` is one        *)
(* running next(e) (or one running top-level call) with the list of the   *)
(* operator-chain steps that are still to run for the current observer.   *)
(***************************************************************************)
EXTENDS Integers, Sequences, FiniteSets, TLC

(***************************************************************************)
(* Bounds of the model.                                                    *)
(***************************************************************************)
\* most partial outputs one execute generator of a free node yields
MaxYields == 2
\* most runs seeded by invoke
MaxRuns == 1
\* most runs invoked while an earlier run is still executing
MaxOverlap == 1
\* entries folded by the reducer on its own
MaxFold == 3
\* run ids of those entries (0 stands for a null run)
MaxRunId == 2
\* most promises requested with select
MaxSelects == 1
\* most subscriptions of the application to the value of a render item
MaxViews == 1

(***************************************************************************)
(* Values carried by output fields.                                        *)
(***************************************************************************)
V(x) == [t |-> "value", x |-> x]
Undefined == [t |-> "undefined", x |-> ""]
Null == [t |-> "null", x |-> ""]
SchemaOf(n) == [t |-> "schema", x |-> n]
RenderOf(n) == [t |-> "render", x |-> n]

\* `cur.value == undefined` (loose equality: null too)
IsUndefined(v) == v.t \in {"undefined", "null"}

(***************************************************************************)
(* Value providers and bind(edges).                                        *)
(***************************************************************************)
OutputOf(n, f) == [type |-> "output", node |-> n, field |-> f]
SchemaProv(n) == [type |-> "schema", node |-> n, field |-> "schema"]
RenderProv(n) == [type |-> "render", node |-> n, field |-> "__render__"]

\* an edge value that is no provider: provider[VALUE_PROVIDER] is undefined, so the
\* entry has no type, node or sourceField; field keeps the kind of the literal
Literal(v) == [type |-> "", node |-> "", field |-> v.t]

\* the providers given to mergeRenderStreams(...renders), by the name the merged
\* provider has here (the provider itself carries no node id)
renders(w) == IF w = "weather+error" THEN <<"weather", "error">> ELSE <<>>
IsMerged(w) == renders(w) # <<>>

\* one entry of the edges object: a target field bound to one provider ...
One(tf, p) == [target |-> tf, isArray |-> FALSE, provs |-> <<p>>]
\* ... or to an array of providers
Many(tf, ps) == [target |-> tf, isArray |-> TRUE, provs |-> ps]

GraphNames ==
  {"pipe", "pair", "chain", "array", "mixed", "tool", "toolfirst", "shared", "toolbox",
   "relay", "twin", "panel", "merged", "idle", "literal", "nulled"}

\* the bind calls of a graph, in call order
Binds(gr) ==
  CASE gr = "pipe" ->
         << [node |-> "B", edges |-> << One("v", OutputOf("A", "x")) >>] >>
    [] gr = "relay" ->
         << [node |-> "A", edges |-> << One("q", OutputOf("input", "query")) >>] >>
    [] gr = "twin" ->
         << [node |-> "B", edges |-> << One("v", OutputOf("A", "x")),
                                        One("w", OutputOf("A", "x")) >>] >>
    [] gr = "pair" ->
         << [node |-> "B", edges |-> << One("v", OutputOf("A", "x")),
                                        One("w", OutputOf("A", "y")) >>] >>
    [] gr = "chain" ->
         << [node |-> "A", edges |-> << One("q", OutputOf("input", "query")) >>],
            [node |-> "B", edges |-> << One("v", OutputOf("A", "x")) >>],
            [node |-> "C", edges |-> << One("u", OutputOf("B", "x")) >>] >>
    [] gr = "array" ->
         << [node |-> "A1", edges |-> << One("q", OutputOf("input", "query")) >>],
            [node |-> "A2", edges |-> << One("q", OutputOf("input", "query")) >>],
            [node |-> "C", edges |-> << Many("items", << OutputOf("A1", "y"),
                                                         OutputOf("A2", "y") >>) >>] >>
    [] gr = "mixed" ->
         << [node |-> "A1", edges |-> << One("q", OutputOf("input", "query")) >>],
            [node |-> "A2", edges |-> << One("q", OutputOf("input", "query")) >>],
            [node |-> "C", edges |-> << Many("items", << OutputOf("A1", "y"),
                                                         OutputOf("A2", "y") >>),
                                        One("z", OutputOf("A1", "z")) >>] >>
    [] gr = "tool" ->
         << [node |-> "chat", edges |-> << One("query", OutputOf("input", "query")),
                                           Many("tools", << SchemaProv("weather") >>) >>],
            [node |-> "user", edges |-> << One("markdown", OutputOf("chat", "markdown")),
                                           One("ui", RenderProv("weather")) >>] >>
    [] gr = "toolfirst" ->
         << [node |-> "user", edges |-> << One("markdown", OutputOf("chat", "markdown")),
                                           One("ui", RenderProv("weather")) >>],
            [node |-> "chat", edges |-> << One("query", OutputOf("input", "query")),
                                           Many("tools", << SchemaProv("weather") >>) >>] >>
    [] gr = "shared" ->
         << [node |-> "chat", edges |-> << One("query", OutputOf("input", "query")),
                                           Many("tools", << SchemaProv("weather") >>) >>],
            [node |-> "chat2", edges |-> << One("query", OutputOf("input", "query")),
                                            Many("tools", << SchemaProv("weather") >>) >>] >>
    [] gr = "toolbox" ->
         << [node |-> "chat", edges |-> << One("query", OutputOf("input", "query")),
                                           Many("tools", << SchemaProv("weather"),
                                                            SchemaProv("search") >>) >>] >>
    [] gr = "panel" ->
         << [node |-> "user", edges |-> << One("ui", RenderProv("weather")) >>] >>
    [] gr = "idle" ->
         << [node |-> "chat", edges |-> << One("query", OutputOf("input", "query")),
                                           Many("tools", << SchemaProv("weather") >>) >>],
            [node |-> "weather", edges |-> << Many("tools", << SchemaProv("search") >>) >>],
            [node |-> "search", edges |-> <<>>],
            [node |-> "user", edges |-> << One("ui", RenderProv("weather")) >>] >>
    [] gr = "merged" ->
         << [node |-> "user", edges |-> << One("ui", RenderProv("weather+error")) >>] >>
    [] gr = "literal" ->
         << [node |-> "B", edges |-> << One("v", OutputOf("A", "x")),
                                        One("note", Literal(V("lit"))),
                                        Many("tags", << Literal(V("a")),
                                                        Literal(V("b")) >>) >>] >>
    [] gr = "nulled" ->
         << [node |-> "B", edges |-> << One("v", OutputOf("A", "x")),
                                        One("note", Literal(Null)) >>] >>

\* the node the application invokes
Entry(gr) ==
  CASE gr \in {"pipe", "pair", "twin", "literal", "nulled"} -> "A"
    [] gr \in {"panel", "merged"} -> "chat"
    [] OTHER -> "input"

\* the nodes added to a graph
Nodes(gr) ==
  CASE gr \in {"pipe", "pair", "twin", "literal", "nulled"} -> {"A", "B"}
    [] gr = "relay" -> {"input", "A"}
    [] gr = "chain" -> {"input", "A", "B", "C"}
    [] gr \in {"array", "mixed"} -> {"input", "A1", "A2", "C"}
    [] gr \in {"tool", "toolfirst"} -> {"input", "chat", "weather", "user"}
    [] gr = "shared" -> {"input", "chat", "chat2", "weather"}
    [] gr = "toolbox" -> {"input", "chat", "weather", "search"}
    [] gr = "panel" -> {"chat", "weather", "user"}
    [] gr = "idle" -> {"input", "chat", "weather", "search", "user"}
    [] gr = "merged" -> {"chat", "weather", "error", "user"}

AllNodes == UNION {Nodes(gr) : gr \in GraphNames}

RECURSIVE Flatten(_)
Flatten(ss) == IF ss = <<>> THEN <<>> ELSE Head(ss) \o Flatten(Tail(ss))

RECURSIVE Select(_, _)
\* the subsequence of the records of s whose type is ty
Select(s, ty) ==
  IF s = <<>> THEN <<>>
  ELSE IF Head(s).type = ty THEN <<Head(s)>> \o Select(Tail(s), ty)
       ELSE Select(Tail(s), ty)

Range(s) == {s[i] : i \in DOMAIN s}

\* provider[VALUE_PROVIDER] and p[VALUE_PROVIDER] read a property of the edge value:
\* a TypeError when the value is null or undefined, and bind subscribes to nothing
BindThrows(b) ==
  \E i \in DOMAIN b.edges : \E k \in DOMAIN b.edges[i].provs :
    b.edges[i].provs[k].type = "" /\ b.edges[i].provs[k].field \in {"null", "undefined"}

\* the bind calls that returned, evaluated once
BindTable == [gr \in GraphNames |-> SelectSeq(Binds(gr), LAMBDA b : ~BindThrows(b))]

\* the position of node n's bind call among the bind calls bt, 0 when n is not bound
BindIndex(bt, n) ==
  IF \E i \in DOMAIN bt : bt[i].node = n
  THEN CHOOSE i \in DOMAIN bt : bt[i].node = n
  ELSE 0

BoundNodes(gr) == {BindTable[gr][i].node : i \in DOMAIN BindTable[gr]}

\* the edges argument of node n's bind call among the bind calls bt
EdgesIn(bt, n) == bt[BindIndex(bt, n)].edges

edges(gr, n) == EdgesIn(BindTable[gr], n)

\* providers: one record per (target field, provider) of the edges es
ProvidersOf(es) ==
  Flatten([i \in DOMAIN es |->
            [j \in DOMAIN es[i].provs |->
              [targetField |-> es[i].target,
               type |-> es[i].provs[j].type,
               node |-> es[i].provs[j].node,
               sourceField |-> es[i].provs[j].field]]])

providers(gr, n) == ProvidersOf(edges(gr, n))

\* the providers of every bind call, evaluated once
Providers == [gr \in GraphNames |-> [n \in BoundNodes(gr) |-> providers(gr, n)]]

outputSourceProviders(gr, n) == Select(Providers[gr][n], "output")
schemaSources(gr, n) == Select(Providers[gr][n], "schema")
renderSources(gr, n) == Select(Providers[gr][n], "render")
\* a set of producers that holds the nodes of the schema and render providers too
uniqueOutputProviderNodes_All(gr, n) == {p.node : p \in Range(Providers[gr][n])}
uniqueOutputProviderNodes(gr, n) == {p.node : p \in Range(outputSourceProviders(gr, n))}
schemaSourceNodeIds(gr, n) == {p.node : p \in Range(schemaSources(gr, n))}

\* Array.isArray(edges[targetField])
IsArrayIn(es, tf) == \E i \in DOMAIN es : es[i].target = tf /\ es[i].isArray

IsArrayField(gr, n, tf) == IsArrayIn(edges(gr, n), tf)

\* take(Array.isArray(edges[group.key]) ? edges[group.key].length : 1)
FieldCapIn(es, tf) ==
  LET i == CHOOSE k \in DOMAIN es : es[k].target = tf
  IN IF es[i].isArray THEN Len(es[i].provs) ELSE 1

FieldCap(gr, n, tf) == FieldCapIn(edges(gr, n), tf)

\* outputSourceProviders.length + schemaSources.length + renderSources.length
ExpectedCount(gr, n) ==
  Len(outputSourceProviders(gr, n)) + Len(schemaSources(gr, n)) + Len(renderSources(gr, n))


\* fieldMappings[sourceField] for the Output events of node src: Object.fromEntries
\* keeps the last target field bound to a source field; "" when there is none
FieldMappingIn(ps, src, sf) ==
  LET hits == {i \in DOMAIN ps : ps[i].node = src /\ ps[i].sourceField = sf}
  IN IF hits = {} THEN ""
     ELSE ps[CHOOSE i \in hits : \A k \in hits : k <= i].targetField

FieldMapping(gr, n, src, sf) == FieldMappingIn(outputSourceProviders(gr, n), src, sf)

RECURSIVE DistinctNodes(_, _)
\* the node ids of a provider list in first-appearance order (a Set's iteration order)
DistinctNodes(ps, seen) ==
  IF ps = <<>> THEN <<>>
  ELSE IF Head(ps).node \in seen THEN DistinctNodes(Tail(ps), seen)
       ELSE <<Head(ps).node>> \o DistinctNodes(Tail(ps), seen \cup {Head(ps).node})

(***************************************************************************)
(* AgentEvent                                                              *)
(***************************************************************************)
NoEvent == [type |-> "none", run |-> 0, node |-> "", output |-> <<>>]
RunInvoked(r, n) == [type |-> "RunInvoked", run |-> r, node |-> n, output |-> <<>>]
Output(r, n, o) == [type |-> "Output", run |-> r, node |-> n, output |-> o]
RunCompleted(r, n) == [type |-> "RunCompleted", run |-> r, node |-> n, output |-> <<>>]
RunSkipped(r, n) == [type |-> "RunSkipped", run |-> r, node |-> n, output |-> <<>>]
\* sendRenderUpdate({run, node, update: {step, data}}): the Render event; its update
\* is kept in the field the other events use for their output
RenderUpdate(r, n, step, data) ==
  [type |-> "Render", run |-> r, node |-> n,
   output |-> << <<"step", V(step)>>, <<"data", V(data)>> >>]

\* a filter that lets only RunCompleted through
IsTerminal_CompletedOnly(e) == e.type = "RunCompleted"

\* event.type == RunCompleted || event.type == RunSkipped
IsTerminal(e) == e.type \in {"RunCompleted", "RunSkipped"}

(***************************************************************************)
(* inputReducer: the fold of mapped input events into {input, run, count}. *)
(* input is the list of its entries in insertion order; an entry keeps the *)
(* values of its field (one value for a scalar field).  err records the    *)
(* exception the callback throws.                                          *)
(***************************************************************************)
InitAcc == [input |-> <<>>, run |-> 0, count |-> 0, err |-> ""]

NoMapped == [src |-> "", target |-> "", isArray |-> FALSE, value |-> Undefined, run |-> 0]

\* the index of the entry of field tf in input, 0 when acc.input[tf] == undefined
InputIndex(input, tf) ==
  IF \E i \in DOMAIN input : input[i].k = tf
  THEN CHOOSE i \in DOMAIN input : input[i].k = tf
  ELSE 0

\* throw new Error(message): the object the reducer throws
Thrown(message) == [name |-> "Error", message |-> message]

\* a reducer that takes over the run of the incoming entry instead of failing
Accumulate_OverwriteRun(acc, cur) ==
  LET a1 == IF cur.run # 0 THEN [acc EXCEPT !.run = cur.run] ELSE acc
      i == InputIndex(a1.input, cur.target)
  IN IF i = 0
     THEN [a1 EXCEPT !.input = Append(@, [k |-> cur.target, arr |-> cur.isArray,
                                          v |-> <<cur.value>>]),
                     !.count = @ + 1]
     ELSE IF ~cur.isArray
          THEN [a1 EXCEPT !.err = "got more than 1 value when only 1 is expected"]
          ELSE [a1 EXCEPT !.input[i].v = Append(@, cur.value), !.count = @ + 1]

\* the reducer's body below its undefined check: the run check, then the value
\* is stored, appended, or refused
Accumulate(acc, cur) ==
  IF acc.run # 0 /\ cur.run # 0 /\ acc.run # cur.run
  THEN [acc EXCEPT !.err = "run is must match"]
  ELSE LET a1 == IF acc.run = 0 /\ cur.run # 0 THEN [acc EXCEPT !.run = cur.run] ELSE acc
           i == InputIndex(a1.input, cur.target)
       IN IF i = 0
          THEN [a1 EXCEPT !.input = Append(@, [k |-> cur.target, arr |-> cur.isArray,
                                               v |-> <<cur.value>>]),
                          !.count = @ + 1]
          ELSE IF ~cur.isArray
               THEN [a1 EXCEPT !.err = "got more than 1 value when only 1 is expected"]
               ELSE [a1 EXCEPT !.input[i].v = Append(@, cur.value), !.count = @ + 1]

\* a reducer without the undefined check
inputReducer_KeepUndefined(acc, cur) == Accumulate(acc, cur)

\* if (cur.value == undefined) return acc: undefined and null are both ignored
inputReducer(acc, cur) ==
  IF IsUndefined(cur.value) THEN acc ELSE Accumulate(acc, cur)

(***************************************************************************)
(* Node code.  User and the chat input node yield their input once; the   *)
(* other nodes are free: each step of their execute is one of Steps.       *)
(***************************************************************************)
Yield(o) == [k |-> "yield", out |-> o, node |-> ""]
Call(w) == [k |-> "call", out |-> <<>>, node |-> w]
\* tool.invoke(input, {run}) whose promise execute does not await before going on
Spawn(w) == [k |-> "spawn", out |-> <<>>, node |-> w]
\* context.render(step, data), step being the render id the transform put in
RenderCall(step) == [k |-> "render", out |-> << <<"step", V(step)>> >>, node |-> ""]

\* nodes whose execute is `yield input`
YieldsInput(n) == n \in {"user", "input"}
\* nodes whose onInputEvent republishes the partial input (User)
SendsInput(n) == n = "user"

Steps(gr, n) ==
  CASE gr = "pipe" /\ n = "A" ->
         {Yield(<< <<"x", V("p")>> >>), Yield(<< <<"x", V("q")>> >>),
          Yield(<< <<"x", Undefined>> >>), Yield(<< <<"x", Null>> >>),
          Yield(<< <<"z", V("p")>> >>)}
    [] gr = "pair" /\ n = "A" ->
         {Yield(<< <<"x", V("p")>> >>), Yield(<< <<"y", V("q")>> >>),
          Yield(<< <<"x", V("p")>>, <<"y", Undefined>> >>),
          Yield(<< <<"x", V("p")>>, <<"y", V("q")>> >>)}
    [] gr = "chain" /\ n \in {"A", "B"} -> {Yield(<< <<"x", V("p")>> >>)}
    [] gr \in {"twin", "literal", "nulled"} /\ n = "A" -> {Yield(<< <<"x", V("p")>> >>)}
    [] gr = "array" /\ n = "A1" -> {Yield(<< <<"y", V("p")>> >>)}
    [] gr = "array" /\ n = "A2" -> {Yield(<< <<"y", V("q")>> >>)}
    [] gr = "mixed" /\ n = "A1" -> {Yield(<< <<"y", V("p")>> >>), Yield(<< <<"z", V("r")>> >>)}
    [] gr = "mixed" /\ n = "A2" -> {Yield(<< <<"y", V("q")>> >>)}
    [] gr \in {"tool", "toolfirst"} /\ n = "chat" ->
         {Yield(<< <<"markdown", V("p")>> >>), Call("weather")}
    [] gr = "shared" /\ n \in {"chat", "chat2"} -> {Call("weather")}
    [] gr = "toolbox" /\ n = "chat" -> {Call("weather")}
    [] gr = "panel" /\ n = "chat" -> {Call("weather")}
    [] gr = "idle" /\ n = "chat" -> {Yield(<< <<"markdown", V("p")>> >>)}
    [] gr = "panel" /\ n = "weather" -> {RenderCall("render-0")}
    [] gr = "merged" /\ n = "chat" -> {Spawn("weather"), Spawn("error")}
    [] gr = "merged" /\ n \in {"weather", "error"} -> {RenderCall("render-0")}
    [] OTHER -> {}

\* the inputs the application passes to invoke
Inputs(gr) ==
  IF Entry(gr) = "input"
  THEN {<<>>, << [k |-> "query", arr |-> FALSE, v |-> <<V("p")>>] >>}
  ELSE {<<>>}

\* the arguments with which an execute calls a tool
ToolInput == << [k |-> "args", arr |-> FALSE, v |-> <<V("p")>>] >>

\* an input object as the partial output `yield input` publishes
ToOutput(input) ==
  [i \in DOMAIN input |->
     <<input[i].k, IF input[i].arr THEN [t |-> "array", x |-> input[i].k] ELSE input[i].v[1]>>]

RECURSIVE Assign_KeepFirst(_, _)
\* a merge that keeps the value a key got first
Assign_KeepFirst(out, po) ==
  IF po = <<>> THEN out
  ELSE LET k == Head(po)[1]
           o1 == IF \E i \in DOMAIN out : out[i][1] = k
                 THEN out
                 ELSE Append(out, Head(po))
       IN Assign_KeepFirst(o1, Tail(po))

RECURSIVE Assign(_, _)
\* Object.assign(output, partialOutput)
Assign(out, po) ==
  IF po = <<>> THEN out
  ELSE LET k == Head(po)[1]
           o1 == IF \E i \in DOMAIN out : out[i][1] = k
                 THEN [i \in DOMAIN out |-> IF out[i][1] = k THEN Head(po) ELSE out[i]]
                 ELSE Append(out, Head(po))
       IN Assign(o1, Tail(po))

(***************************************************************************)
(* State                                                                   *)
(***************************************************************************)
VARIABLES
  g,       \* the graph under execution
  runs,    \* number of runs seeded so far (run ids are 1..runs)
  log,     \* the events passed to EventStream.next, in call order
  stack,   \* the running next() calls and their pending operator steps
  bs,      \* bs[n][r]: the operator state bind set up for node n and run group r
  conns,   \* the render providers' connections to the EventStream
  gens,    \* the execute generators started by #invoke
  calls,   \* the onInputEvent calls made so far
  invs,    \* the calls of GraphNode.invoke made so far, with the run they returned
  sels,    \* the promises output[f].select({runId}) returned
  fold,    \* an inputReducer accumulator folded on its own
  folded   \* the entries given to it, each with the accumulator it met

vars == <<g, runs, log, stack, bs, conns, gens, calls, invs, sels, fold, folded>>

Runs == 1..(MaxRuns + MaxOverlap)

\* the operator state of one run group of bind, right after the group's subscriptions
InitBS(gr, n) ==
  [ncDone |-> FALSE,
   snrs |-> {},
   skipped |-> <<>>,
   opcCount |-> 0,
   zip0 |-> <<>>,
   zip1 |-> <<>>,
   zipDone |-> (uniqueOutputProviderNodes(gr, n) = {}),
   started |-> [sps |-> FALSE, rs |-> FALSE],
   taken |-> [ops |-> 0, sps |-> 0, rs |-> 0],
   done |-> [ops |-> (outputSourceProviders(gr, n) = <<>>),
             sps |-> (schemaSources(gr, n) = <<>>),
             rs |-> (renderSources(gr, n) = <<>>)],
   acc |-> InitAcc,
   accSt |-> IF providers(gr, n) = <<>> THEN "emitted" ELSE "open",
   flds |-> <<>>,
   fires |-> <<>>]

Init ==
  /\ g \in GraphNames
  /\ runs = 0
  /\ log = <<>>
  /\ stack = <<>>
  /\ bs = [n \in BoundNodes(g) |-> [r \in Runs |-> InitBS(g, n)]]
  /\ conns = <<>>
  /\ gens = <<>>
  /\ calls = <<>>
  /\ invs = <<>>
  /\ sels = <<>>
  /\ fold = InitAcc
  /\ folded = <<>>


(***************************************************************************)
(* The call stack.  A step is one operator-chain segment of one observer;  *)
(* it runs for node `node` in run group `run`.                             *)
(***************************************************************************)
Step(op, n, r, ev, m) ==
  [op |-> op, node |-> n, run |-> r, ev |-> ev, m |-> m, inp |-> <<>>, j |-> 0]

Frame(ev, n, todo) == [ev |-> ev, oi |-> 1, n |-> n, todo |-> todo]

Top == stack[Len(stack)]
Cur == Head(Top.todo)
Running(op) == stack # <<>> /\ Top.todo # <<>> /\ Cur.op = op

\* the current step returns after queueing the steps `new` in its place
Continue(new) == [stack EXCEPT ![Len(stack)].todo = new \o Tail(@)]

NumBinds == Len(BindTable[g])

\* a groupBy that puts the events of every run into one group
GroupKey_One(ev) == 1

\* groupBy((e) => e.run.id): the run group an event belongs to
GroupKey(ev) == ev.run

\* a render provider stays subscribed to the EventStream while share() has a
\* subscriber or a group of its groupBy has one: group.subscribe((x) => {}) never ends
Connected(c) == c.live \/ c.groups \cup c.dark # {}

\* the steps with which observer i of the EventStream handles event ev: the
\* subscriptions of bind's run group in subscription order (the filters decide
\* which of them see ev at all), or a render provider's connection
ObserverSteps(i, ev) ==
  IF i <= NumBinds
  THEN LET n == BindTable[g][i].node
       IN IF IsTerminal(ev)
          THEN (IF ev.node = n
                THEN << Step("nodeCompleted", n, GroupKey(ev), ev, NoMapped) >>
                ELSE IF ev.node \in schemaSourceNodeIds(g, n)
                     THEN << Step("schemaNodesRunStream", n, GroupKey(ev), ev, NoMapped) >>
                     ELSE <<>>)
               \o (IF ev.node \in uniqueOutputProviderNodes(g, n)
                   THEN << Step("outputProvidersCompleted", n, GroupKey(ev), ev, NoMapped) >>
                   ELSE <<>>)
          ELSE IF ev.type = "Output"
          THEN (IF ev.node \in uniqueOutputProviderNodes(g, n)
                THEN << Step("outputProviderStream", n, GroupKey(ev), ev, NoMapped) >>
                ELSE <<>>)
          ELSE IF ev.type = "RunInvoked"
          THEN (IF schemaSources(g, n) # <<>>
                THEN << Step("schemaProviderStream", n, GroupKey(ev), ev, NoMapped) >>
                ELSE <<>>)
               \o (IF renderSources(g, n) # <<>>
                   THEN << Step("renderStream", n, GroupKey(ev), ev, NoMapped) >>
                   ELSE <<>>)
          ELSE <<>>
  ELSE LET c == conns[i - NumBinds]
       IN IF /\ ~IsMerged(c.prov) /\ Connected(c)
             /\ (ev.node = c.prov \/ ev.type = "RunInvoked")
          THEN << [Step("render", c.prov, ev.run, ev, NoMapped) EXCEPT !.j = i - NumBinds] >>
          ELSE <<>>

\* the observers of the running next() that still have something to do with its event
Waiting == {i \in Top.oi..Top.n : ObserverSteps(i, Top.ev) # <<>>}

\* Subject.next: hand the event to the next observer
Deliver ==
  /\ stack # <<>> /\ Top.todo = <<>>
  /\ LET w == Waiting
     IN /\ w # {}
        /\ LET i == CHOOSE k \in w : \A l \in w : k <= l
           IN stack' = [stack EXCEPT ![Len(stack)].oi = i + 1,
                                     ![Len(stack)].todo = ObserverSteps(i, Top.ev)]
  /\ UNCHANGED <<sels, fold, folded, invs, g, runs, log, bs, conns, gens, calls>>

\* Subject.next returns to its caller
Return ==
  /\ stack # <<>> /\ Top.todo = <<>> /\ Waiting = {}
  /\ stack' = SubSeq(stack, 1, Len(stack) - 1)
  /\ UNCHANGED <<sels, fold, folded, invs, g, runs, log, bs, conns, gens, calls>>

\* the observers of output[field].select({runId}): the first Output event of the
\* node that has the field and the run id resolves the promise with its value
Resolve(ss, ev) ==
  [k \in DOMAIN ss |->
     IF /\ ~ss[k].resolved
        /\ ev.type = "Output" /\ ev.node = ss[k].node
        /\ \E j \in DOMAIN ev.output : ev.output[j][1] = ss[k].field
        /\ ev.run = ss[k].run
     THEN [ss[k] EXCEPT !.resolved = TRUE,
             !.value = ev.output[CHOOSE j \in DOMAIN ev.output :
                                   ev.output[j][1] = ss[k].field][2]]
     ELSE ss[k]]

\* EventStream.next(ev), sendOutput
Publish ==
  /\ Running("next")
  /\ log' = Append(log, Cur.ev)
  /\ sels' = Resolve(sels, Cur.ev)
  /\ stack' = Append(Continue(<<>>), Frame(Cur.ev, NumBinds + Len(conns), <<>>))
  /\ UNCHANGED <<fold, folded, invs, g, runs, bs, conns, gens, calls>>

(***************************************************************************)
(* bind: schema-bound upstream skip propagation                            *)
(***************************************************************************)
\* a binding that issues no RunSkipped for its schema sources
NotRun_None(ids, schemaNodesThatWasRun) == <<>>

\* a binding that issues a RunSkipped for every schema source
NotRun_All(ids, schemaNodesThatWasRun) == ids

\* [...schemaSourceNodeIds] without the ids in schemaNodesThatWasRun
NotRun(ids, schemaNodesThatWasRun) ==
  SelectSeq(ids, LAMBDA w : w \notin schemaNodesThatWasRun)

\* zip(nodeCompleted, schemaNodesRunStream): this node's first terminal event closes
\* schemaNodesRunStream and a RunSkipped is published for every schema source not in it
NodeCompleted ==
  /\ Running("nodeCompleted")
  /\ LET n == Cur.node  r == Cur.run  b == bs[n][r]
         ids == DistinctNodes(schemaSources(g, n), {})
         missing == NotRun(ids, b.snrs)
     IN IF b.ncDone
        THEN /\ stack' = Continue(<<>>)
             /\ bs' = bs
        ELSE /\ bs' = [bs EXCEPT ![n][r].ncDone = TRUE, ![n][r].skipped = missing]
             /\ stack' = Continue([i \in DOMAIN missing |->
                            Step("next", n, r, RunSkipped(Cur.ev.run, missing[i]), NoMapped)])
  /\ UNCHANGED <<sels, fold, folded, invs, g, runs, log, conns, gens, calls>>

\* schemaNodesRunStream: a terminal event of a schema source before nodeCompleted
SchemaNodesRun ==
  /\ Running("schemaNodesRunStream")
  /\ LET n == Cur.node  r == Cur.run
     IN bs' = IF bs[n][r].ncDone THEN bs
              ELSE [bs EXCEPT ![n][r].snrs = @ \cup {Cur.ev.node}]
  /\ stack' = Continue(<<>>)
  /\ UNCHANGED <<sels, fold, folded, invs, g, runs, log, conns, gens, calls>>

(***************************************************************************)
(* bind: the three input streams                                           *)
(***************************************************************************)
\* an outputProviderStream that no terminal event cuts off
OutputProvidersCompleted_NoCut ==
  /\ Running("outputProvidersCompleted")
  /\ LET n == Cur.node  r == Cur.run  b == bs[n][r]
     IN IF b.opcCount >= Cardinality(uniqueOutputProviderNodes(g, n))
        THEN /\ bs' = bs
             /\ stack' = Continue(<<>>)
        ELSE /\ bs' = [bs EXCEPT ![n][r].opcCount = @ + 1]
             /\ stack' = Continue(<< Step("zip", n, r, Cur.ev, NoMapped) >>)
  /\ UNCHANGED <<sels, fold, folded, invs, g, runs, log, conns, gens, calls>>

\* outputProvidersCompleted: take(uniqueOutputProviderNodes.size) terminal events of the
\* output providers; each goes to takeUntil (closing outputProviderStream) and to zip
OutputProvidersCompleted ==
  /\ Running("outputProvidersCompleted")
  /\ LET n == Cur.node  r == Cur.run  b == bs[n][r]
     IN IF b.opcCount >= Cardinality(uniqueOutputProviderNodes(g, n))
        THEN /\ bs' = bs
             /\ stack' = Continue(<<>>)
        ELSE /\ bs' = [bs EXCEPT ![n][r].opcCount = @ + 1]
             /\ stack' = Continue(<< Step("complete", n, r, Cur.ev, [NoMapped EXCEPT !.src = "ops"]),
                                     Step("zip", n, r, Cur.ev, NoMapped) >>)
  /\ UNCHANGED <<sels, fold, folded, invs, g, runs, log, conns, gens, calls>>

\* the mapped input events of one Output event: one per output key that has a mapping
MappedOutputs(n, ev) ==
  LET hit == SelectSeq(ev.output, LAMBDA kv : FieldMapping(g, n, ev.node, kv[1]) # "")
  IN [i \in DOMAIN hit |->
        LET tf == FieldMapping(g, n, ev.node, hit[i][1])
        IN Step("mapped", n, ev.run, ev,
                [src |-> "ops", target |-> tf, isArray |-> IsArrayField(g, n, tf),
                 value |-> hit[i][2], run |-> ev.run])]

\* outputProviderStream: filter + mergeMap
OutputProviderStream ==
  /\ Running("outputProviderStream")
  /\ stack' = Continue(MappedOutputs(Cur.node, Cur.ev))
  /\ UNCHANGED <<sels, fold, folded, invs, g, runs, log, bs, conns, gens, calls>>

\* schemaProviderStream: the first RunInvoked of the run makes every schema source emit
SchemaProviderStream ==
  /\ Running("schemaProviderStream")
  /\ LET n == Cur.node  r == Cur.run  ss == schemaSources(g, n)
     IN IF bs[n][r].started.sps
        THEN /\ bs' = bs
             /\ stack' = Continue(<<>>)
        ELSE /\ bs' = [bs EXCEPT ![n][r].started.sps = TRUE]
             /\ stack' = Continue([i \in DOMAIN ss |->
                  Step("mapped", n, r, Cur.ev,
                       [src |-> "sps", target |-> ss[i].targetField,
                        isArray |-> IsArrayField(g, n, ss[i].targetField),
                        value |-> SchemaOf(ss[i].node), run |-> Cur.ev.run])])
  /\ UNCHANGED <<sels, fold, folded, invs, g, runs, log, conns, gens, calls>>

\* merge(...renders): a merged provider that connects subscribes to its providers
MergeSources(w) == [i \in DOMAIN renders(w) |-> [node |-> renders(w)[i], targetField |-> ""]]

RECURSIVE Subscribe(_, _, _, _)
\* subscribe (n, r) to the render providers of the sources rs: share() connects the
\* provider to the EventStream on its first subscriber and adds later ones to it; the
\* subscription of the merged provider's connection k takes every run and is kept as -k
Subscribe(cs, rs, n, r) ==
  IF rs = <<>> THEN cs
  ELSE LET w == Head(rs).node
           sub == [node |-> n, run |-> r, target |-> Head(rs).targetField]
           c1 == IF \E i \in DOMAIN cs : cs[i].prov = w /\ cs[i].live
                 THEN LET i == CHOOSE k \in DOMAIN cs : cs[k].prov = w /\ cs[k].live
                      IN [cs EXCEPT ![i].subs = Append(@, sub)]
                 ELSE Subscribe(Append(cs, [prov |-> w, live |-> TRUE, subs |-> <<sub>>,
                                            groups |-> {}, dark |-> {}, vals |-> <<>>]),
                                MergeSources(w), w, 0 - (Len(cs) + 1))
       IN Subscribe(c1, Tail(rs), n, r)

\* renderStream: the first RunInvoked of the run subscribes to every render source
RenderStream ==
  /\ Running("renderStream")
  /\ LET n == Cur.node  r == Cur.run
     IN IF bs[n][r].started.rs
        THEN /\ bs' = bs
             /\ conns' = conns
        ELSE /\ bs' = [bs EXCEPT ![n][r].started.rs = TRUE]
             /\ conns' = Subscribe(conns, renderSources(g, n), n, r)
  /\ stack' = Continue(<<>>)
  /\ UNCHANGED <<sels, fold, folded, invs, g, runs, log, gens, calls>>

\* the steps with which the subscribers of a render provider take its item for run r:
\* a bound node maps it to its target field, a merged provider groups it
ItemSteps(to, prov, j, r, ev) ==
  [i \in DOMAIN to |->
     IF to[i].run < 0
     THEN [Step("merge", to[i].node, r, ev, NoMapped) EXCEPT !.j = 0 - to[i].run,
                                                             !.inp = <<j>>]
     ELSE Step("mapped", to[i].node, r, ev,
               [src |-> "rs", target |-> to[i].target,
                isArray |-> IsArrayField(g, to[i].node, to[i].target),
                value |-> RenderOf(prov), run |-> r])]

\* GraphNode.render: the provider's groupBy(run.id) emits {run, value} on the first
\* event of a run it sees, to the subscribers share() has then (bound nodes filter on
\* their own run id), and hands every event to its group
Render ==
  /\ Running("render")
  /\ LET c == conns[Cur.j]  r == Cur.ev.run
         to == SelectSeq(c.subs, LAMBDA s : s.run = r \/ s.run < 0)
         group == [Step("group", c.prov, r, Cur.ev, NoMapped) EXCEPT !.j = Cur.j]
     IN IF r \in c.groups \cup c.dark
        THEN /\ conns' = conns
             /\ stack' = Continue(<< group >>)
        ELSE IF ~c.live
        THEN /\ conns' = [conns EXCEPT ![Cur.j].dark = @ \cup {r}]
             /\ stack' = Continue(<< group >>)
        ELSE /\ conns' = [conns EXCEPT ![Cur.j].groups = @ \cup {r}]
             /\ stack' = Continue(ItemSteps(to, c.prov, Cur.j, r, Cur.ev) \o << group >>)
  /\ UNCHANGED <<sels, fold, folded, invs, g, runs, log, bs, gens, calls>>

\* value: group.pipe(takeUntil(runCompleted)).pipe(filter(Render)), for the
\* subscribers of the values of one provider; the notifier was subscribed first
Feed(vals, ev) ==
  [k \in DOMAIN vals |->
     IF vals[k].run # ev.run \/ ~vals[k].open THEN vals[k]
     ELSE IF IsTerminal(ev) THEN [vals[k] EXCEPT !.open = FALSE]
     ELSE IF ev.type = "Render" THEN [vals[k] EXCEPT !.got = Append(@, ev)]
     ELSE vals[k]]

\* the merged connections whose mergeMap is subscribed to a value of connection j
\* that delivers ev
Forwarded(j, ev) ==
  {conns[j].vals[i].to : i \in {k \in DOMAIN conns[j].vals :
      /\ conns[j].vals[k].to # 0 /\ conns[j].vals[k].open
      /\ conns[j].vals[k].run = ev.run /\ ev.type = "Render"}}

\* group.next(e): the group of the event's run passes it to the subscribers of its
\* value; mergeMap passes what it gets on to the subscribers of the merged value
Group ==
  /\ Running("group")
  /\ conns' = [k \in DOMAIN conns |->
                IF k = Cur.j THEN [conns[k] EXCEPT !.vals = Feed(@, Cur.ev)]
                ELSE IF k \in Forwarded(Cur.j, Cur.ev)
                THEN [conns[k] EXCEPT !.vals =
                        [i \in DOMAIN @ |->
                           IF @[i].run = Cur.ev.run
                           THEN [@[i] EXCEPT !.got = Append(@, Cur.ev)]
                           ELSE @[i]]]
                ELSE conns[k]]
  /\ stack' = Continue(<<>>)
  /\ UNCHANGED <<sels, fold, folded, invs, g, runs, log, bs, gens, calls>>

\* a merged value that takes the item of its first provider only
MergeCap_One(w) == 1

\* take(renders.length) of a merged group
MergeCap(w) == Len(renders(w))

\* a subscription to a value: the run of its group, whether it is still subscribed,
\* the Render events delivered, the length of the stream when it was made, the merged
\* connection it feeds (0: the application's), the items a merged value has taken
Sub(r, k) == [run |-> r, open |-> TRUE, got |-> <<>>, at |-> Len(log), to |-> k, taken |-> 0]

\* mergeRenderStreams: groupBy(run.id) of the merged provider emits {run, value} on
\* the first item of a run, after value.subscribe(), and hands every item to its group
Merge ==
  /\ Running("merge")
  /\ LET c == conns[Cur.j]  r == Cur.run
         to == SelectSeq(c.subs, LAMBDA s : s.run = r)
         take == [Step("take", c.prov, r, Cur.ev, NoMapped) EXCEPT !.j = Cur.j,
                                                                   !.inp = Cur.inp]
     IN IF r \in c.groups \cup c.dark
        THEN /\ conns' = conns
             /\ stack' = Continue(<< take >>)
        ELSE IF ~c.live
        THEN /\ conns' = [conns EXCEPT ![Cur.j].dark = @ \cup {r}]
             /\ stack' = Continue(<< take >>)
        ELSE /\ conns' = [conns EXCEPT ![Cur.j].groups = @ \cup {r},
                                        ![Cur.j].vals = Append(@, Sub(r, 0))]
             /\ stack' = Continue(ItemSteps(to, c.prov, Cur.j, r, Cur.ev) \o << take >>)
  /\ UNCHANGED <<sels, fold, folded, invs, g, runs, log, bs, gens, calls>>

\* the merged connections that are still subscribed to their providers: share() has a
\* subscriber, or a merged group has not taken all its items
Attached(cs) ==
  {k \in DOMAIN cs :
     /\ IsMerged(cs[k].prov)
     /\ cs[k].live \/ \E i \in DOMAIN cs[k].vals : cs[k].vals[i].taken < MergeCap(cs[k].prov)}

\* a merged connection that is no longer attached leaves its providers
Detach(cs) ==
  [k \in DOMAIN cs |->
     LET left == SelectSeq(cs[k].subs, LAMBDA s : s.run >= 0 \/ (0 - s.run) \in Attached(cs))
     IN [cs[k] EXCEPT !.subs = left, !.live = @ /\ left # <<>>]]

\* value: group.pipe(take(renders.length)).pipe(mergeMap((g) => g.value)): the merged
\* value of the run subscribes to the value of every item it takes
Take ==
  /\ Running("take")
  /\ LET k == Cur.j  j == Cur.inp[1]  r == Cur.run
         ms == {i \in DOMAIN conns[k].vals :
                  conns[k].vals[i].run = r /\ conns[k].vals[i].taken < MergeCap(conns[k].prov)}
     IN IF ms = {}
        THEN conns' = conns
        ELSE conns' = Detach([conns EXCEPT
               ![k].vals = [i \in DOMAIN @ |->
                              IF i \in ms THEN [@[i] EXCEPT !.taken = @ + 1] ELSE @[i]],
               ![j].vals = Append(@, Sub(r, k))])
  /\ stack' = Continue(<<>>)
  /\ UNCHANGED <<sels, fold, folded, invs, g, runs, log, bs, gens, calls>>

\* a schemaProviderStream that ends after its first schema
StreamCap_SchemaOnce(n, src) ==
  CASE src = "ops" -> Len(outputSourceProviders(g, n))
    [] src = "sps" -> 1
    [] src = "rs" -> Len(renderSources(g, n))

\* take(n) of the three streams
StreamCap(n, src) ==
  CASE src = "ops" -> Len(outputSourceProviders(g, n))
    [] src = "sps" -> Len(schemaSources(g, n))
    [] src = "rs" -> Len(renderSources(g, n))

\* a mapped input event passes takeUntil/take of its stream and is multicast (share) to
\* the per-field subscription and then to the merged reducer
Mapped ==
  /\ Running("mapped")
  /\ LET n == Cur.node  r == Cur.run  b == bs[n][r]  src == Cur.m.src
     IN IF b.done[src] \/ b.taken[src] >= StreamCap(n, src)
        THEN /\ bs' = bs
             /\ stack' = Continue(<<>>)
        ELSE /\ bs' = [bs EXCEPT ![n][r].taken[src] = @ + 1]
             /\ stack' = Continue(<< Step("field", n, r, Cur.ev, Cur.m),
                                     Step("reduce", n, r, Cur.ev, Cur.m) >>
                                  \o IF b.taken[src] + 1 = StreamCap(n, src)
                                     THEN << Step("complete", n, r, Cur.ev, Cur.m) >>
                                     ELSE <<>>)
  /\ UNCHANGED <<sels, fold, folded, invs, g, runs, log, conns, gens, calls>>


(***************************************************************************)
(* bind: per-field delivery to onInputEvent                                *)
(***************************************************************************)
\* the steps of onInputEvent(context, input): User republishes the partial input
OnInputEvent(n, a) ==
  IF SendsInput(n)
  THEN << Step("next", n, a.run, Output(a.run, n, ToOutput(a.input)), NoMapped) >>
  ELSE <<>>

\* a groupBy that forgets a field group once its subscriber has completed
FieldIndex_Reopen(flds, key) ==
  IF \E i \in DOMAIN flds : flds[i].key = key /\ flds[i].st = "open"
  THEN CHOOSE i \in DOMAIN flds : flds[i].key = key /\ flds[i].st = "open"
  ELSE 0

\* groupBy((e) => e.targetField): the group of a key, 0 when the key is new
FieldIndex(flds, key) ==
  IF \E i \in DOMAIN flds : flds[i].key = key
  THEN CHOOSE i \in DOMAIN flds : flds[i].key = key
  ELSE 0

\* groupBy(targetField) -> take(cap) -> inputReducer -> onInputEvent when count > 0
Field ==
  /\ Running("field")
  /\ LET n == Cur.node  r == Cur.run  b == bs[n][r]  m == Cur.m
         i == FieldIndex(b.flds, m.target)
         flds0 == IF i = 0
                  THEN Append(b.flds, [key |-> m.target, taken |-> 0, acc |-> InitAcc,
                                       st |-> "open"])
                  ELSE b.flds
         idx == IF i = 0 THEN Len(flds0) ELSE i
         grp == flds0[idx]
         a == inputReducer(grp.acc, m)
         full == grp.taken + 1 = FieldCap(g, n, m.target)
         emit == grp.st = "open" /\ a.err = "" /\ full /\ a.count > 0
     IN /\ bs' = IF grp.st # "open"
                 THEN [bs EXCEPT ![n][r].flds = flds0]
                 ELSE [bs EXCEPT ![n][r].flds =
                         [flds0 EXCEPT ![idx] =
                            [grp EXCEPT !.acc = a, !.taken = @ + 1,
                                        !.st = IF a.err # "" THEN "error"
                                               ELSE IF full THEN "done" ELSE "open"]]]
        /\ calls' = IF emit THEN Append(calls, [node |-> n, run |-> a.run, input |-> a.input])
                    ELSE calls
        /\ stack' = Continue(IF emit THEN OnInputEvent(n, a) ELSE <<>>)
  /\ UNCHANGED <<sels, fold, folded, invs, g, runs, log, conns, gens>>

\* the merged stream completed: groupBy completes a field group that is still open
FieldComplete ==
  /\ Running("fieldComplete")
  /\ LET n == Cur.node  r == Cur.run  b == bs[n][r]
         i == FieldIndex(b.flds, Cur.m.target)
         emit == b.flds[i].st = "open" /\ b.flds[i].acc.count > 0
     IN /\ bs' = IF b.flds[i].st = "open" THEN [bs EXCEPT ![n][r].flds[i].st = "done"] ELSE bs
        /\ calls' = IF emit
                    THEN Append(calls, [node |-> n, run |-> b.flds[i].acc.run,
                                        input |-> b.flds[i].acc.input])
                    ELSE calls
        /\ stack' = Continue(IF emit THEN OnInputEvent(n, b.flds[i].acc) ELSE <<>>)
  /\ UNCHANGED <<sels, fold, folded, invs, g, runs, log, conns, gens>>

(***************************************************************************)
(* bind: merge all inputs and invoke the step                              *)
(***************************************************************************)
\* a fire decision that takes any input for the full input
InputComplete_AnyInput(n, count) == count >= 1

\* inputEvent.count == outputSourceProviders.length + schemaSources.length + renderSources.length
InputComplete(n, count) == count = ExpectedCount(g, n)

\* the zip callback: both buffers hold a value
FireState(n, b) ==
  [b EXCEPT !.zip0 = Tail(@), !.zip1 = <<>>, !.zipDone = TRUE,
            !.fires = Append(@, [kind |-> IF InputComplete(n, Head(b.zip1).count)
                                          THEN "invoke" ELSE "skip",
                                 count |-> Head(b.zip1).count,
                                 after |-> Head(b.zip0)])]

FireSteps(n, r, b) ==
  LET t == Head(b.zip0)  a == Head(b.zip1)
  IN IF InputComplete(n, a.count)
     THEN << [Step("invoke", n, a.run, t, NoMapped) EXCEPT !.inp = a.input] >>
     ELSE << Step("next", n, r, RunSkipped(t.run, n), NoMapped) >>

\* the merged inputReducer takes one mapped input event
Reduce ==
  /\ Running("reduce")
  /\ LET n == Cur.node  r == Cur.run  b == bs[n][r]
         a == inputReducer(b.acc, Cur.m)
     IN bs' = IF b.accSt # "open" THEN bs
              ELSE IF a.err # ""
                   THEN [bs EXCEPT ![n][r].acc = a, ![n][r].accSt = "error",
                                   ![n][r].zipDone = TRUE]
                   ELSE [bs EXCEPT ![n][r].acc = a]
  /\ stack' = Continue(<<>>)
  /\ UNCHANGED <<sels, fold, folded, invs, g, runs, log, conns, gens, calls>>

RECURSIVE Unsubscribe(_, _, _)
\* (n, r) leaves the render providers; share() disconnects a provider without subscribers
Unsubscribe(cs, n, r) ==
  IF cs = <<>> THEN <<>>
  ELSE LET left == SelectSeq(Head(cs).subs, LAMBDA s : ~(s.node = n /\ s.run = r))
       IN << [Head(cs) EXCEPT !.subs = left, !.live = @ /\ left # <<>>] >>
          \o Unsubscribe(Tail(cs), n, r)

OpenFields(n, r, flds, ev) ==
  LET open == SelectSeq(flds, LAMBDA f : f.st = "open")
  IN [i \in DOMAIN open |->
        Step("fieldComplete", n, r, ev, [NoMapped EXCEPT !.target = open[i].key])]

\* a merge that completes with the first of its sources
MergeComplete_First(d) == d.ops \/ d.sps \/ d.rs

\* merge(outputProviderStream, schemaProviderStream, renderStream) completes when
\* its three sources have completed
MergeComplete(d) == d.ops /\ d.sps /\ d.rs

\* one of the three streams completes (take reached, or takeUntil fired); the last one
\* completes both merges: the open field groups flush, then the merged reducer emits
Complete ==
  /\ Running("complete")
  /\ LET n == Cur.node  r == Cur.run  b == bs[n][r]  src == Cur.m.src
         d == [b.done EXCEPT ![src] = TRUE]
     IN IF b.done[src]
        THEN /\ bs' = bs
             /\ conns' = conns
             /\ stack' = Continue(<<>>)
        ELSE /\ bs' = [bs EXCEPT ![n][r].done = d]
             /\ conns' = IF src = "rs" THEN Detach(Unsubscribe(conns, n, r)) ELSE conns
             /\ stack' = Continue(IF MergeComplete(d)
                                  THEN OpenFields(n, r, b.flds, Cur.ev)
                                       \o << Step("reduced", n, r, Cur.ev, NoMapped) >>
                                  ELSE <<>>)
  /\ UNCHANGED <<sels, fold, folded, invs, g, runs, log, gens, calls>>

\* reduce emits the accumulator into zip
Reduced ==
  /\ Running("reduced")
  /\ LET n == Cur.node  r == Cur.run  b == bs[n][r]
         b1 == [b EXCEPT !.accSt = "emitted", !.zip1 = <<b.acc>>]
     IN IF b.accSt # "open"
        THEN /\ bs' = bs
             /\ stack' = Continue(<<>>)
        ELSE IF b.zipDone
        THEN /\ bs' = [bs EXCEPT ![n][r].accSt = "emitted"]
             /\ stack' = Continue(<<>>)
        ELSE IF b1.zip0 # <<>>
        THEN /\ bs' = [bs EXCEPT ![n][r] = FireState(n, b1)]
             /\ stack' = Continue(FireSteps(n, r, b1))
        ELSE /\ bs' = [bs EXCEPT ![n][r] = b1]
             /\ stack' = Continue(<<>>)
  /\ UNCHANGED <<sels, fold, folded, invs, g, runs, log, conns, gens, calls>>

\* outputProvidersCompleted emits a terminal event into zip
Zip ==
  /\ Running("zip")
  /\ LET n == Cur.node  r == Cur.run  b == bs[n][r]
         b1 == [b EXCEPT !.zip0 = Append(@, Cur.ev)]
     IN IF b.zipDone
        THEN /\ bs' = bs
             /\ stack' = Continue(<<>>)
        ELSE IF b1.zip1 # <<>>
        THEN /\ bs' = [bs EXCEPT ![n][r] = FireState(n, b1)]
             /\ stack' = Continue(FireSteps(n, r, b1))
        ELSE /\ bs' = [bs EXCEPT ![n][r] = b1]
             /\ stack' = Continue(<<>>)
  /\ UNCHANGED <<sels, fold, folded, invs, g, runs, log, conns, gens, calls>>

(***************************************************************************)
(* invoke, #invoke and the execute generators                              *)
(***************************************************************************)
\* #invoke(input, run) up to its first await: the generator exists, nothing is published
StartExecute ==
  /\ Running("invoke")
  /\ gens' = Append(gens, [node |-> Cur.node, run |-> Cur.run, input |-> Cur.inp,
                           yields |-> 0, out |-> <<>>, st |-> "running",
                           caller |-> Cur.j, ys |-> <<>>, at |-> <<>>, end |-> 0])
  /\ stack' = Continue(<<>>)
  /\ UNCHANGED <<sels, fold, folded, invs, g, runs, log, bs, conns, calls>>

TopLevel(todo) == << Frame(NoEvent, 0, todo) >>

\* nothing is executing: no call is on the stack and every generator has returned
Quiescent == stack = <<>> /\ \A i \in DOMAIN gens : gens[i].st \in {"done", "failed"}

\* the graphs whose agent is invoked again once a run has come to rest
Reinvoked == {"tool"}

\* an invoke that announces the run also when the caller gave its id
invoke_AlwaysInvoked(n, r, given, inp, j) ==
  << Step("next", n, r, RunInvoked(r, n), NoMapped),
     [Step("invoke", n, r, NoEvent, NoMapped) EXCEPT !.inp = inp, !.j = j] >>

\* GraphNode.invoke(input, options) with run r: RunInvoked unless options.run.id was
\* given, then #invoke(input, run); j is the generator awaiting the returned output
invoke(n, r, given, inp, j) ==
  (IF given THEN <<>> ELSE << Step("next", n, r, RunInvoked(r, n), NoMapped) >>)
  \o << [Step("invoke", n, r, NoEvent, NoMapped) EXCEPT !.inp = inp, !.j = j] >>

\* the application calls invoke(input) on the entry node: uniqueId() is a run id not used yet
Invoke ==
  /\ stack = <<>> /\ runs < MaxRuns
  /\ runs = 0 \/ (g \in Reinvoked /\ Quiescent)
  /\ \E inp \in Inputs(g) :
       /\ stack' = TopLevel(invoke(Entry(g), runs + 1, FALSE, inp, 0))
       /\ invs' = Append(invs, [node |-> Entry(g), run |-> runs + 1, given |-> FALSE,
                                input |-> inp])
  /\ runs' = runs + 1
  /\ UNCHANGED <<sels, fold, folded, g, log, bs, conns, gens, calls>>

\* the output fields the application selects
Selected(gr) ==
  CASE gr = "pair" -> {<<"A", "x">>, <<"A", "y">>}
    [] OTHER -> {}

\* the application calls node.output[field].select({runId}) with the id of a run
\* invoke returned: a promise, and a subscription to the stream from now on
select ==
  /\ stack = <<>> /\ Len(sels) < MaxSelects
  /\ \E p \in Selected(g) : \E r \in 1..runs :
       sels' = Append(sels, [node |-> p[1], field |-> p[2], run |-> r, at |-> Len(log),
                             resolved |-> FALSE, value |-> Undefined])
  /\ UNCHANGED <<fold, folded, invs, g, runs, log, stack, bs, conns, gens, calls>>

\* the graphs whose agent is invoked again while a run is executing
Interleaved == {"relay"}

\* the runs that have a generator which has not finished
Executing == {gens[i].run : i \in {k \in DOMAIN gens : gens[k].st \in {"running", "waiting"}}}

\* the application calls invoke(input) on the entry node while the run it invoked last,
\* and no other, is still executing: the runs share the EventStream
InvokeDuring ==
  /\ stack = <<>> /\ g \in Interleaved
  /\ runs >= 1 /\ runs < 1 + MaxOverlap /\ Executing = {runs}
  /\ \E inp \in Inputs(g) :
       /\ stack' = TopLevel(invoke(Entry(g), runs + 1, FALSE, inp, 0))
       /\ invs' = Append(invs, [node |-> Entry(g), run |-> runs + 1, given |-> FALSE,
                                input |-> inp])
  /\ runs' = runs + 1
  /\ UNCHANGED <<sels, fold, folded, g, log, bs, conns, gens, calls>>

\* what the generator of gens[i] may yield next
NextYields(i) ==
  IF YieldsInput(gens[i].node)
  THEN IF gens[i].yields = 0 THEN {ToOutput(gens[i].input)} ELSE {}
  ELSE IF gens[i].yields < MaxYields
       THEN {s.out : s \in {t \in Steps(g, gens[i].node) : t.k = "yield"}}
       ELSE {}

\* for await: one partial output is published and merged into the output
GenYield(i) ==
  /\ stack = <<>> /\ gens[i].st = "running"
  /\ \E po \in NextYields(i) :
       /\ gens' = [gens EXCEPT ![i].yields = @ + 1, ![i].out = Assign(@, po),
                                ![i].ys = Append(@, po),
                                ![i].at = Append(@, Len(log) + 1)]
       /\ stack' = TopLevel(<< Step("next", gens[i].node, gens[i].run,
                                    Output(gens[i].run, gens[i].node, po), NoMapped) >>)
  /\ UNCHANGED <<sels, fold, folded, invs, g, runs, log, bs, conns, calls>>

\* execute calls a tool node in its own run, tool.invoke(input, {run}), and awaits it
GenCall(i) ==
  /\ stack = <<>> /\ gens[i].st = "running"
  /\ ~YieldsInput(gens[i].node) /\ gens[i].yields < MaxYields
  /\ \E s \in Steps(g, gens[i].node) :
       /\ s.k = "call"
       /\ stack' = TopLevel(invoke(s.node, gens[i].run, TRUE, ToolInput, i))
       /\ invs' = Append(invs, [node |-> s.node, run |-> gens[i].run, given |-> TRUE,
                                input |-> ToolInput])
  /\ gens' = [gens EXCEPT ![i].yields = @ + 1, ![i].st = "waiting"]
  /\ UNCHANGED <<sels, fold, folded, g, runs, log, bs, conns, calls>>

\* execute calls a tool node in its own run and goes on without awaiting the promise;
\* it calls a tool once in a run
GenSpawn(i) ==
  /\ stack = <<>> /\ gens[i].st = "running"
  /\ ~YieldsInput(gens[i].node) /\ gens[i].yields < MaxYields
  /\ \E s \in Steps(g, gens[i].node) :
       /\ s.k = "spawn"
       /\ \A p \in DOMAIN invs : ~(invs[p].node = s.node /\ invs[p].run = gens[i].run)
       /\ stack' = TopLevel(invoke(s.node, gens[i].run, TRUE, ToolInput, 0))
       /\ invs' = Append(invs, [node |-> s.node, run |-> gens[i].run, given |-> TRUE,
                                input |-> ToolInput])
  /\ gens' = [gens EXCEPT ![i].yields = @ + 1]
  /\ UNCHANGED <<sels, fold, folded, g, runs, log, bs, conns, calls>>

\* the data of the next render call: every call passes data of its own
NextData == ToString(Cardinality({p \in DOMAIN log : log[p].type = "Render"}) + 1)

\* execute calls context.render(step, data): sendRenderUpdate publishes a Render event
GenRender(i) ==
  /\ stack = <<>> /\ gens[i].st = "running"
  /\ gens[i].yields < MaxYields
  /\ \E s \in Steps(g, gens[i].node) :
       /\ s.k = "render"
       /\ stack' = TopLevel(<< Step("next", gens[i].node, gens[i].run,
                                    RenderUpdate(gens[i].run, gens[i].node,
                                                 s.out[1][2].x, NextData), NoMapped) >>)
  /\ gens' = [gens EXCEPT ![i].yields = @ + 1]
  /\ UNCHANGED <<sels, fold, folded, invs, g, runs, log, bs, conns, calls>>

\* the graphs in which the application subscribes to the render values it is handed
Watched == {"panel"}

\* the render items handed to the application: the (connection, run) pairs whose
\* {run, value} a bound node republished as its output
Handed ==
  {jr \in (DOMAIN conns) \X Runs :
     /\ jr[2] \in conns[jr[1]].groups
     /\ \E p \in DOMAIN log :
          /\ log[p].type = "Output" /\ log[p].run = jr[2]
          /\ \E k \in DOMAIN log[p].output :
               log[p].output[k][2] = RenderOf(conns[jr[1]].prov)}

\* the application subscribes to the value of a render item
SubscribeValue ==
  /\ stack = <<>> /\ g \in Watched
  /\ \E jr \in Handed :
       /\ Len(conns[jr[1]].vals) < MaxViews
       /\ conns' = [conns EXCEPT ![jr[1]].vals = Append(@, Sub(jr[2], 0))]
  /\ UNCHANGED <<sels, fold, folded, invs, g, runs, log, stack, bs, gens, calls>>

\* the generator completes: RunCompleted, and the promise resolves with the output
GenReturn(i) ==
  /\ stack = <<>> /\ gens[i].st = "running"
  /\ YieldsInput(gens[i].node) => gens[i].yields = 1
  /\ gens' = [k \in DOMAIN gens |->
                IF k = i THEN [gens[k] EXCEPT !.st = "done", !.end = Len(log) + 1]
                ELSE IF k = gens[i].caller THEN [gens[k] EXCEPT !.st = "running"]
                ELSE gens[k]]
  /\ stack' = TopLevel(<< Step("next", gens[i].node, gens[i].run,
                               RunCompleted(gens[i].run, gens[i].node), NoMapped) >>)
  /\ UNCHANGED <<sels, fold, folded, invs, g, runs, log, bs, conns, calls>>

\* a #invoke that publishes RunCompleted also when execute throws
GenThrow_Completes(i) ==
  /\ stack = <<>> /\ gens[i].st = "running"
  /\ gens' = [k \in DOMAIN gens |->
                IF k = i THEN [gens[k] EXCEPT !.st = "failed"]
                ELSE IF k = gens[i].caller THEN [gens[k] EXCEPT !.st = "running"]
                ELSE gens[k]]
  /\ stack' = TopLevel(<< Step("next", gens[i].node, gens[i].run,
                               RunCompleted(gens[i].run, gens[i].node), NoMapped) >>)
  /\ UNCHANGED <<sels, fold, folded, invs, g, runs, log, bs, conns, calls>>

\* execute throws: for await rethrows, #invoke has no catch, its promise rejects and
\* nothing is published; a caller awaiting the promise goes on with the rejection
GenThrow(i) ==
  /\ stack = <<>> /\ gens[i].st = "running"
  /\ gens' = [k \in DOMAIN gens |->
                IF k = i THEN [gens[k] EXCEPT !.st = "failed"]
                ELSE IF k = gens[i].caller THEN [gens[k] EXCEPT !.st = "running"]
                ELSE gens[k]]
  /\ UNCHANGED <<sels, fold, folded, invs, g, runs, log, stack, bs, conns, calls>>

Next ==
  \/ Invoke
  \/ InvokeDuring
  \/ \E i \in DOMAIN gens : GenYield(i)
  \/ \E i \in DOMAIN gens : GenCall(i)
  \/ \E i \in DOMAIN gens : GenSpawn(i)
  \/ \E i \in DOMAIN gens : GenRender(i)
  \/ SubscribeValue
  \/ \E i \in DOMAIN gens : GenReturn(i)
  \/ \E i \in DOMAIN gens : GenThrow(i)
  \/ select
  \/ StartExecute
  \/ Publish
  \/ Deliver
  \/ Return
  \/ NodeCompleted
  \/ SchemaNodesRun
  \/ OutputProvidersCompleted
  \/ OutputProviderStream
  \/ SchemaProviderStream
  \/ RenderStream
  \/ Render
  \/ Group
  \/ Merge
  \/ Take
  \/ Mapped
  \/ Field
  \/ FieldComplete
  \/ Reduce
  \/ Complete
  \/ Reduced
  \/ Zip

Spec == Init /\ [][Next]_vars

(***************************************************************************)
(* The reducer on its own: inputReducer folded over arbitrary entries.     *)
(***************************************************************************)
\* the entries of a scalar target v and an array target items
Entries ==
  {[src |-> "ops", target |-> t, isArray |-> (t = "items"), value |-> v, run |-> r] :
     t \in {"v", "items"}, v \in {Undefined, Null, V("p")}, r \in 0..MaxRunId}

\* reduce(fn, seed) takes one more entry; a throw ends the stream
Fold(cur) ==
  /\ Len(folded) < MaxFold /\ fold.err = ""
  /\ fold' = inputReducer(fold, cur)
  /\ folded' = Append(folded, [entry |-> cur, acc |-> fold])
  /\ UNCHANGED <<g, runs, log, stack, bs, conns, gens, calls, invs, sels>>

ReducerInit == Init /\ g = "pipe"

ReducerNext == \E cur \in Entries : Fold(cur)

ReducerSpec == ReducerInit /\ [][ReducerNext]_vars

\* ---------------------------------------------------------------------------
\* Properties of the event stream

\* the positions of the terminal events of node n in run r
Terminals(r, n) ==
  {i \in DOMAIN log : IsTerminal(log[i]) /\ log[i].run = r /\ log[i].node = n}

\* the positions of the Output events of node n in run r
Outputs(r, n) ==
  {i \in DOMAIN log : log[i].type = "Output" /\ log[i].run = r /\ log[i].node = n}

\* the execute generators started for node n in run r
Started(r, n) == {i \in DOMAIN gens : gens[i].run = r /\ gens[i].node = n}

\* nothing is executing and every execute generator started has returned normally
Returned == stack = <<>> /\ \A i \in DOMAIN gens : gens[i].st = "done"

\* C1: for every run r and every node n, in any graph (a schema bound as a tool
\* by several consumers, a schema-bound tool also invoked inside the run), the
\* event stream never holds more than one terminal event (RunCompleted or
\* RunSkipped) for the pair (r, n).
C1_AtMostOneTerminal ==
  \A r \in Runs : \A n \in Nodes(g) : Cardinality(Terminals(r, n)) <= 1

\* C2: for every run seeded by invoke and every node of the graph, once every
\* started execute generator has returned and nothing is left to deliver, the
\* node has published a terminal event (RunCompleted or RunSkipped) for the run.
C2_EveryNodeTerminates ==
  Returned => \A r \in 1..runs : \A n \in Nodes(g) : Terminals(r, n) # {}

RECURSIVE ValueCount(_)
\* the number of values held by an input
ValueCount(input) ==
  IF input = <<>> THEN 0 ELSE Len(Head(input).v) + ValueCount(Tail(input))

\* the positions of the RunSkipped events of node n in run r
Skips(r, n) ==
  {i \in DOMAIN log : log[i].type = "RunSkipped" /\ log[i].run = r /\ log[i].node = n}

\* C3: for a bound node and a run the binding decides at most once; it starts
\* execute if and only if the accumulated count equals the number of output,
\* schema and render sources, and publishes RunSkipped otherwise; it never does
\* both and never starts execute with fewer values than bound sources.
C3_FiresOnceIffComplete ==
  \A n \in BoundNodes(g) : \A r \in Runs :
    LET f == bs[n][r].fires
        \* the RunSkipped events of n are those of its own binding: no other binding
        \* has n as a schema source and may skip it
        own == \A m \in BoundNodes(g) : n \notin schemaSourceNodeIds(g, m)
    IN /\ Len(f) <= 1
       /\ own => Cardinality(Started(r, n)) + Cardinality(Skips(r, n)) <= 1
       /\ \A k \in DOMAIN f : (f[k].kind = "invoke") <=> (f[k].count = ExpectedCount(g, n))
       /\ \A i \in Started(r, n) :
            /\ f # <<>> /\ f[1].kind = "invoke"
            /\ ValueCount(gens[i].input) = ExpectedCount(g, n)
       /\ (own /\ Skips(r, n) # {}) => (f # <<>> /\ f[1].kind = "skip")
       /\ (stack = <<>> /\ f # <<>>) =>
            IF f[1].kind = "invoke" THEN Started(r, n) # {} ELSE Skips(r, n) # {}

\* a node bound to at least two sources was fired by its binding and its
\* execute has run to the end
C3_Witness ==
  \E n \in BoundNodes(g) : \E r \in Runs :
    /\ ExpectedCount(g, n) >= 2
    /\ bs[n][r].fires # <<>> /\ bs[n][r].fires[1].kind = "invoke"
    /\ \E i \in Started(r, n) : gens[i].st = "done"

Consumers(w) == {n \in BoundNodes(g) : w \in schemaSourceNodeIds(g, n)}

\* the nodes bound to the render stream of node w
RenderConsumers(w) ==
  {n \in BoundNodes(g) : \E p \in Range(renderSources(g, n)) : p.node = w}

\* the nodes whose schema is bound as a tool
Tools == {w \in Nodes(g) : Consumers(w) # {}}

Carries(e, f) ==
  \E k \in DOMAIN e.output : e.output[k][1] = f /\ ~IsUndefined(e.output[k][2])

\* the value of field f carried by event e
ValueOf(e, f) == e.output[CHOOSE k \in DOMAIN e.output : e.output[k][1] = f][2]

\* the positions of the Output events of run r with which node n publishes field f
Publications(r, n, f) == {i \in Outputs(r, n) : Carries(log[i], f)}

\* C6: with C.bind({items: [A1.output.y, A2.output.y]}), in every run in which
\* A1 and A2 each publish field y, C's execute is started with items equal to
\* the two published values in publication order, whatever the interleaving of
\* the Output and terminal events of A1 and A2.
C6_ArrayInPublicationOrder ==
  (g = "array" /\ Returned) =>
    \A r \in 1..runs :
      \A i \in Publications(r, "A1", "y") : \A j \in Publications(r, "A2", "y") :
        (Publications(r, "A1", "y") = {i} /\ Publications(r, "A2", "y") = {j}) =>
          \E c \in Started(r, "C") :
            gens[c].input =
              << [k |-> "items", arr |-> TRUE,
                  v |-> IF i < j
                        THEN << ValueOf(log[i], "y"), ValueOf(log[j], "y") >>
                        ELSE << ValueOf(log[j], "y"), ValueOf(log[i], "y") >>] >>

\* event e has an entry for field f, defined or not
HasKey(e, f) == \E k \in DOMAIN e.output : e.output[k][1] = f

\* the positions of the RunCompleted events of node n in run r
Completions(r, n) ==
  {i \in DOMAIN log : log[i].type = "RunCompleted" /\ log[i].run = r /\ log[i].node = n}

\* the least element of a non-empty set of positions
First(S) == CHOOSE i \in S : \A j \in S : i <= j

\* C7: a node bound to an output source starts execute, or publishes
\* RunSkipped, only after a terminal event of one of its output producers for
\* the run was observed and after its input accumulator has completed (the
\* output, schema and render streams are all closed); so in the pipe
\* B.bind({v: A.output.x}), when A and B run to their end, B.onInputEvent is
\* called with {v: <A's x>} and RunCompleted of A comes before RunCompleted of B.
C7_FiresAfterTerminalAndAccumulator ==
  /\ \A n \in BoundNodes(g) : \A r \in Runs :
       LET b == bs[n][r]
           ps == uniqueOutputProviderNodes(g, n)
       IN (ps # {} /\ (Started(r, n) # {} \/ Skips(r, n) # {})) =>
            /\ b.accSt = "emitted" /\ b.done.ops /\ b.done.sps /\ b.done.rs
            /\ \E p \in ps : Terminals(r, p) # {}
            /\ \A i \in Terminals(r, n) : \E p \in ps : \E j \in Terminals(r, p) : j < i
  /\ (g = "pipe" /\ Returned) =>
       \A r \in 1..runs :
         LET xs == {i \in Outputs(r, "A") : HasKey(log[i], "x")}
         IN (xs # {} /\ Carries(log[First(xs)], "x")) =>
              /\ \E c \in DOMAIN calls :
                   /\ calls[c].node = "B" /\ calls[c].run = r
                   /\ calls[c].input = << [k |-> "v", arr |-> FALSE,
                                           v |-> << ValueOf(log[First(xs)], "x") >>] >>
              /\ \E i \in Completions(r, "A") : \E j \in Completions(r, "B") : i < j
              /\ \A j \in Completions(r, "B") : \E i \in Completions(r, "A") : i < j

\* the pipe has run: A yielded x, B.onInputEvent got it, and RunCompleted of A
\* is followed by RunCompleted of B
C7_Witness ==
  /\ g = "pipe" /\ Returned
  /\ Publications(1, "A", "x") # {}
  /\ \E c \in DOMAIN calls : calls[c].node = "B" /\ calls[c].input[1].k = "v"
  /\ \E i \in Completions(1, "A") : \E j \in Completions(1, "B") : i < j

\* the onInputEvent calls of node n in run r whose input holds target field tf
Deliveries(r, n, tf) ==
  {c \in DOMAIN calls :
     /\ calls[c].node = n /\ calls[c].run = r
     /\ \E k \in DOMAIN calls[c].input : calls[c].input[k].k = tf}

\* C8: for a bound scalar target field and a run, at most one value of the
\* field is delivered to onInputEvent, however many Output events of the
\* producer carry the bound source field.
C8_ScalarDeliveredOnce ==
  \A n \in BoundNodes(g) : \A r \in Runs :
    \A e \in Range(edges(g, n)) :
      ~e.isArray =>
        /\ Cardinality(Deliveries(r, n, e.target)) <= 1
        /\ \A c \in Deliveries(r, n, e.target) :
             \A k \in DOMAIN calls[c].input :
               calls[c].input[k].k = e.target => Len(calls[c].input[k].v) = 1

\* A published x twice while B's output stream was open for two values, and
\* the scalar field v was delivered to B.onInputEvent
C8_Witness ==
  /\ g = "pair" /\ Quiescent
  /\ Cardinality(Publications(1, "A", "x")) >= 2
  /\ bs["B"][1].taken.ops = 2
  /\ Deliveries(1, "B", "v") # {}

\* the values that input holds for target field tf
ValuesOf(input, tf) ==
  IF \E k \in DOMAIN input : input[k].k = tf
  THEN input[CHOOSE k \in DOMAIN input : input[k].k = tf].v
  ELSE <<>>

\* C9: for a bound array target field declared with k providers, at most k
\* values are accumulated for the field in a run, in the per-field accumulator
\* delivered to onInputEvent and in the merged accumulator passed to execute,
\* even when a producer publishes the source field more than once and other
\* fields are bound too.
C9_ArrayAtMostK ==
  \A n \in BoundNodes(g) : \A r \in Runs :
    \A e \in Range(edges(g, n)) :
      e.isArray =>
        /\ \A c \in Deliveries(r, n, e.target) :
             Len(ValuesOf(calls[c].input, e.target)) <= Len(e.provs)
        /\ Len(ValuesOf(bs[n][r].acc.input, e.target)) <= Len(e.provs)
        /\ \A i \in Started(r, n) :
             Len(ValuesOf(gens[i].input, e.target)) <= Len(e.provs)

\* the accumulator returned for the i-th folded entry
AccAfter(i) == IF i = Len(folded) THEN fold ELSE folded[i + 1].acc

\* the folded entries that carried a value and were not refused
Accepted ==
  {i \in DOMAIN folded : folded[i].entry.value.t = "value" /\ AccAfter(i).err = ""}

\* C10: an entry whose value is undefined leaves the accumulator unchanged (no
\* key added to input, run not set, count not incremented), so count always
\* equals the number of defined values accepted.
C10_UndefinedLeavesAccumulator ==
  /\ \A i \in DOMAIN folded :
       folded[i].entry.value = Undefined => AccAfter(i) = folded[i].acc
  /\ fold.count = Cardinality(Accepted)
  /\ fold.count = ValueCount(fold.input)

\* an undefined entry carrying a run came first, a value followed and was
\* accepted: the accumulator counts one value
C10_Witness ==
  /\ Len(folded) >= 2
  /\ folded[1].entry.value = Undefined /\ folded[1].entry.run # 0
  /\ folded[2].entry.value.t = "value"
  /\ fold.err = "" /\ fold.count = 1

\* C11: the accumulator's run, once set by the first accepted entry carrying
\* a run, never changes: a later entry with a null run leaves it as is, and a
\* later entry with a different run id makes the reducer fail instead of
\* overwriting it.
C11_RunStable ==
  \A i \in DOMAIN folded :
    LET a == folded[i].acc  e == folded[i].entry  b == AccAfter(i)
    IN /\ a.run # 0 => b.run = a.run
       /\ (a.run = 0 /\ e.value.t = "value" /\ e.run # 0 /\ b.err = "") => b.run = e.run
       /\ (a.run # 0 /\ e.value.t = "value" /\ e.run # 0 /\ e.run # a.run) =>
            (b.err = "run is must match" /\ b.input = a.input /\ b.count = a.count)

\* run 1 was set by the first entry, an entry with a null run was accepted
\* and left it, and an entry of run 2 made the reducer fail
C11_Witness ==
  /\ Len(folded) = 3
  /\ folded[1].entry.value.t = "value" /\ folded[1].entry.run = 1
  /\ folded[2].entry.value.t = "value" /\ folded[2].entry.run = 0
  /\ folded[3].acc.count = 2 /\ folded[3].acc.run = 1
  /\ folded[3].entry.value.t = "value" /\ folded[3].entry.run = 2
  /\ fold.err = "run is must match" /\ fold.run = 1

\* C12: when a second defined value arrives for a target field that already
\* holds a value and the entry is not an array entry, the reducer fails with a
\* protocol-violation error that is distinguishable from generic exceptions,
\* rather than overwriting or appending; an array entry is appended and the
\* reducer does not fail.
C12_DuplicateScalarFails ==
  \A i \in DOMAIN folded :
    LET a == folded[i].acc  e == folded[i].entry  b == AccAfter(i)
    IN (/\ e.value.t = "value" /\ InputIndex(a.input, e.target) # 0
        /\ ~(a.run # 0 /\ e.run # 0 /\ a.run # e.run)) =>
         IF ~e.isArray
         THEN /\ b.err # "" /\ Thrown(b.err).name # "Error"
              /\ b.input = a.input /\ b.count = a.count
         ELSE /\ b.err = "" /\ b.count = a.count + 1
              /\ ValuesOf(b.input, e.target) = Append(ValuesOf(a.input, e.target), e.value)

\* C13: a protocol violation met while the input of a bound node is
\* accumulated for a run (duplicate scalar value, mismatched run ids) is not
\* silently dropped: once the run is at rest the node has a terminal event for
\* the run.
C13_ViolationSurfaces ==
  Quiescent =>
    \A n \in BoundNodes(g) : \A r \in 1..runs :
      bs[n][r].accSt = "error" => Terminals(r, n) # {}

\* C14: if a node's execute generator throws during run r, the generator is
\* terminated, the promise of the invocation rejects, and a terminal event
\* for (r, node) is published on the event stream.
C14_ThrowGivesTerminal ==
  Quiescent =>
    \A i \in DOMAIN gens :
      gens[i].st = "failed" => Terminals(gens[i].run, gens[i].node) # {}

\* the positions of the RunInvoked events of run r
Invocations(r) == {i \in DOMAIN log : log[i].type = "RunInvoked" /\ log[i].run = r}

\* the generators started by a call of invoke: those of the nodes no bind fires
Invoked == SelectSeq(gens, LAMBDA x : x.node \notin BoundNodes(g))

\* C15: invoke without a run id publishes exactly one RunInvoked event with a
\* fresh run id, before any Output or terminal event of that run; invoke with
\* options.run.id publishes no RunInvoked event and uses the given id on the
\* events it publishes.  In both cases execute is started with the supplied
\* input and the returned run is the id carried by those events.
C15_InvokeRunIds ==
  /\ \A k \in DOMAIN invs :
       LET v == invs[k]
       IN IF v.given
          THEN \A i \in Invocations(v.run) : log[i].node # v.node
          ELSE /\ \A j \in 1..(k - 1) : invs[j].run # v.run
               /\ Cardinality(Invocations(v.run)) <= 1
               /\ stack = <<>> => Cardinality(Invocations(v.run)) = 1
               /\ \A j \in DOMAIN log :
                    log[j].run = v.run => \E i \in Invocations(v.run) : i <= j
               /\ \A i \in Invocations(v.run) : log[i].node = v.node
  /\ Cardinality({i \in DOMAIN log : log[i].type = "RunInvoked"})
       <= Cardinality({k \in DOMAIN invs : ~invs[k].given})
  /\ stack = <<>> =>
       /\ Len(Invoked) = Len(invs)
       /\ \A k \in DOMAIN invs :
            /\ Invoked[k].node = invs[k].node /\ Invoked[k].run = invs[k].run
            /\ Invoked[k].input = invs[k].input
  /\ \A i \in DOMAIN log :
       (log[i].node \notin BoundNodes(g) /\ log[i].type \in {"Output", "RunCompleted"}) =>
         \E k \in DOMAIN invs : invs[k].node = log[i].node /\ invs[k].run = log[i].run

\* the entry node was invoked without a run id and with a query, and chat
\* invoked the weather tool with the id of its run: both have completed
C15_Witness ==
  /\ g = "tool" /\ stack = <<>> /\ Len(invs) = 2
  /\ ~invs[1].given /\ invs[1].input # <<>>
  /\ invs[2].given /\ invs[2].node = "weather" /\ invs[2].run = invs[1].run
  /\ Completions(invs[1].run, "input") # {} /\ Completions(invs[2].run, "weather") # {}

\* the positions at which the execute generators of node n in run r published
\* their yields
Yielded(r, n) == UNION {Range(gens[i].at) : i \in Started(r, n)}

\* C16: for one execution of node n in run r, exactly one Output event is
\* published per yielded partial map, in yield order, each carrying run r and
\* node n and the map yielded; RunCompleted(r, n) is published exactly once,
\* after the last of these Output events and only when the generator has
\* completed; no Output event of the execution follows its RunCompleted.
\* (Output events a node sends from onInputEvent belong to no execution.)
C16_OutputPerYieldThenCompleted ==
  /\ \A i \in DOMAIN gens :
       LET e == gens[i]
       IN /\ Len(e.at) = Len(e.ys)
          /\ \A k \in DOMAIN e.at :
               /\ e.at[k] <= Len(log) => log[e.at[k]] = Output(e.run, e.node, e.ys[k])
               /\ stack = <<>> => e.at[k] <= Len(log)
               /\ \A k2 \in DOMAIN e.at : k < k2 => e.at[k] < e.at[k2]
               /\ \A j \in DOMAIN gens : \A k2 \in DOMAIN gens[j].at :
                    gens[j].at[k2] = e.at[k] => (j = i /\ k2 = k)
          /\ (e.end # 0) <=> (e.st = "done")
          /\ e.end # 0 =>
               /\ e.end <= Len(log) => log[e.end] = RunCompleted(e.run, e.node)
               /\ stack = <<>> => e.end <= Len(log)
               /\ \A k \in DOMAIN e.at : e.at[k] < e.end
               /\ \A j \in DOMAIN gens : gens[j].end = e.end => j = i
  /\ stack = <<>> =>
       \A r \in Runs : \A n \in Nodes(g) :
         /\ Completions(r, n) = {gens[i].end : i \in {j \in Started(r, n) : gens[j].st = "done"}}
         /\ ~SendsInput(n) => Outputs(r, n) = Yielded(r, n)
         /\ Yielded(r, n) \subseteq Outputs(r, n)

\* one execution yielded two partial maps and completed, another one yielded and
\* then threw
C16_Witness ==
  /\ stack = <<>>
  /\ \E i \in DOMAIN gens : gens[i].st = "done" /\ Len(gens[i].ys) = 2
                              /\ gens[i].ys[1] # gens[i].ys[2]
  /\ \E i \in DOMAIN gens : gens[i].st = "failed" /\ Len(gens[i].ys) >= 1

\* the keys of a partial output
Keys(po) == {po[k][1] : k \in DOMAIN po}

\* the value a partial output holds for key f
At(po, f) == po[CHOOSE k \in DOMAIN po : po[k][1] = f][2]

\* the last of the yields ys that carried key f
LastWith(ys, f) ==
  CHOOSE k \in DOMAIN ys : f \in Keys(ys[k]) /\ \A j \in DOMAIN ys : f \in Keys(ys[j]) => j <= k

\* C17: the output with which the promise of invoke resolves is the
\* right-biased union of the partial maps execute yielded, in yield order: it
\* holds exactly the keys some yield carried, each once, and for every key the
\* value of the last yield that carried it.
C17_OutputIsRightBiasedUnion ==
  \A i \in DOMAIN gens :
    gens[i].st = "done" =>
      LET out == gens[i].out
          ys == gens[i].ys
      IN /\ Keys(out) = UNION {Keys(ys[k]) : k \in DOMAIN ys}
         /\ \A a, b \in DOMAIN out : out[a][1] = out[b][1] => a = b
         /\ \A f \in Keys(out) : At(out, f) = At(ys[LastWith(ys, f)], f)

\* an execution yielded one key twice with different values and resolved
C17_Witness ==
  \E i \in DOMAIN gens :
    /\ gens[i].st = "done" /\ Len(gens[i].ys) = 2
    /\ \E f \in Keys(gens[i].ys[1]) \cap Keys(gens[i].ys[2]) :
         At(gens[i].ys[1], f) # At(gens[i].ys[2], f)

\* the positions of the Output events of node n in run r that have field f and
\* precede every terminal event of (r, n)
Carrying(r, n, f) ==
  {i \in Outputs(r, n) : HasKey(log[i], f) /\ \A t \in Terminals(r, n) : i < t}

\* C18: the promise of output[f].select({runId: r}) resolves if and only if an
\* Output event of the node for run r carried field f before the run's
\* terminal event, and it resolves with the first such value, whether select
\* was called before or after that Output event was published.
C18_SelectResolves ==
  \A k \in DOMAIN sels :
    LET s == sels[k]
        C == Carrying(s.run, s.node, s.field)
    IN /\ s.resolved => (C # {} /\ s.value = ValueOf(log[First(C)], s.field))
       /\ (Quiescent /\ Terminals(s.run, s.node) # {} /\ C # {}) => s.resolved

\* the positions of the Output events of run r that carry a value of a source
\* field bound to the entry e of edges
Arrived(r, e) ==
  UNION {Publications(r, e.provs[k].node, e.provs[k].field) : k \in DOMAIN e.provs}

\* the Output events node n published in run r from onInputEvent with field tf
Republished(r, n, tf) ==
  {j \in Outputs(r, n) \ Yielded(r, n) : HasKey(log[j], tf)}

\* C19: for a node bound to several target fields, onInputEvent is called for
\* a field as soon as every provider of the field has published a value for it
\* in the run (by the end of the publication that brought the last of them),
\* whether or not
\* the other bound fields (a render input ui) are ever produced; the User node
\* republishes each such partial input as an Output event of User for the run,
\* before any execute of User has started in the run.
C19_FieldDeliveredOnArrival ==
  \A n \in BoundNodes(g) : \A r \in Runs :
    \A e \in Range(edges(g, n)) :
      (/\ Len(edges(g, n)) >= 2
       /\ \A k \in DOMAIN e.provs : e.provs[k].type = "output"
       /\ stack = <<>>
       /\ \A k \in DOMAIN e.provs :
            Publications(r, e.provs[k].node, e.provs[k].field) # {}) =>
        /\ Deliveries(r, n, e.target) # {}
        /\ SendsInput(n) =>
             /\ \E j \in Republished(r, n, e.target) : First(Arrived(r, e)) < j
             /\ Started(r, n) # {} =>
                  \E j \in Republished(r, n, e.target) :
                    \A i \in Started(r, n) : \A k \in DOMAIN gens[i].at : j < gens[i].at[k]

\* the schema values an input holds, in the order of its fields and their arrays
SchemaInputs(input) ==
  Flatten([i \in DOMAIN input |-> SelectSeq(input[i].v, LAMBDA x : x.t = "schema")])

\* the dispatch of the first RunInvoked event of run r is over
Announced(r) ==
  Invocations(r) # {} /\ (stack = <<>> \/ Len(log) > First(Invocations(r)))

\* C20: in every run that has a RunInvoked event, a consumer bound to k schema
\* sources accumulates exactly k schema inputs for the run, one per schema
\* source in binding order, each the descriptor of that source's node and under
\* the run of the RunInvoked event; they are there once the first RunInvoked
\* has been dispatched and never change afterwards, whether or not a tool node
\* executes or publishes anything in the run.  onInputEvent gets them once.
C20_SchemaInputsOnInvoke ==
  \A n \in BoundNodes(g) : \A r \in Runs :
    LET ss == schemaSources(g, n)
        a == bs[n][r].acc
        got == SchemaInputs(a.input)
    IN ss # <<>> =>
         /\ Len(got) <= Len(ss)
         /\ \A i \in DOMAIN got : got[i].t = "schema" /\ got[i].x = ss[i].node
         /\ Invocations(r) = {} => got = <<>>
         /\ Announced(r) =>
              /\ Len(got) = Len(ss) /\ a.run = r
              /\ \A k \in DOMAIN ss :
                   /\ Cardinality(Deliveries(r, n, ss[k].targetField)) = 1
                   /\ \A c \in Deliveries(r, n, ss[k].targetField) :
                        SchemaInputs(calls[c].input) = got

\* chat is bound to the schemas of weather and search and holds both for run 1;
\* weather was executed in the run, search was not and has published nothing
C20_Witness ==
  /\ g = "toolbox" /\ Quiescent /\ Announced(1)
  /\ Len(SchemaInputs(bs["chat"][1].acc.input)) = 2
  /\ Started(1, "weather") # {} /\ Started(1, "search") = {}
  /\ \A i \in DOMAIN log : log[i].node # "search" \/ log[i].type = "RunSkipped"

\* the values the Output events of run r carry for the source fields bound to
\* the entry e of edges
RunValues(r, e) ==
  UNION {{log[i].output[k][2] :
            k \in {l \in DOMAIN log[i].output :
                     \E j \in DOMAIN e.provs :
                       /\ e.provs[j].type = "output"
                       /\ e.provs[j].node = log[i].node
                       /\ e.provs[j].field = log[i].output[l][1]}} :
         i \in {x \in DOMAIN log : log[x].type = "Output" /\ log[x].run = r}}

\* every output value of the input of bound node n was carried by an event of run r
FromRun(input, r, n) ==
  \A k \in DOMAIN input : \A e \in Range(edges(g, n)) :
    e.target = input[k].k =>
      \A v \in Range(input[k].v) : v.t \in {"schema", "render"} \/ v \in RunValues(r, e)

\* C21: when several runs are interleaved on one EventStream, the input passed
\* to a node's onInputEvent and execute for run r holds only values carried by
\* events of run r; the decision to fire or skip for r is taken in the run
\* group of r, on a terminal event of r from an output producer and on the
\* accumulator of r, which holds values of r only; the events published for
\* the activation (Output, RunCompleted, RunSkipped) carry r.
C21_PerRunCorrelation ==
  \A n \in BoundNodes(g) : \A r \in Runs :
    LET b == bs[n][r]
    IN /\ b.acc.run \in {0, r} /\ b.acc.err # "run is must match"
       /\ FromRun(b.acc.input, r, n)
       /\ \A c \in DOMAIN calls :
            (calls[c].node = n /\ calls[c].run = r) => FromRun(calls[c].input, r, n)
       /\ \A i \in Started(r, n) : FromRun(gens[i].input, r, n)
       /\ \A k \in DOMAIN b.fires :
            /\ b.fires[k].after.run = r
            /\ b.fires[k].after.node \in uniqueOutputProviderNodes(g, n)
            /\ b.fires[k].count <= b.acc.count
       /\ (r > runs) => (b.fires = <<>> /\ b.acc = InitAcc /\ Started(r, n) = {})
       /\ stack = <<>> =>
            /\ Cardinality(Started(r, n))
                 = Cardinality({k \in DOMAIN b.fires : b.fires[k].kind = "invoke"})
            /\ \A i \in Terminals(r, n) :
                 log[i].type = "RunSkipped" =>
                   \/ \E k \in DOMAIN b.fires : b.fires[k].kind = "skip"
                   \/ \E m \in Consumers(n) : Terminals(r, m) # {}

\* two runs were interleaved: run 2 was invoked with a query while run 1,
\* invoked without one, was executing; A was skipped in run 1 after it had
\* fired in run 2 with the query of run 2
C21_Witness ==
  /\ g = "relay" /\ Quiescent /\ runs = 2
  /\ invs[1].input = <<>> /\ invs[2].input # <<>>
  /\ \E i \in Started(2, "A") : gens[i].input # <<>>
  /\ Started(1, "A") = {}
  /\ \E i \in Terminals(1, "A") : \E j \in Terminals(2, "A") :
       j < i /\ log[i].type = "RunSkipped" /\ log[j].type = "RunCompleted"

\* C22: a schema-source node that published RunCompleted or RunSkipped for run
\* r before the consumer's own terminal event for r is not issued a synthetic
\* RunSkipped by that consumer; the consumer issues one only for schema-source
\* node ids absent from the set it saw terminate in the run, at most once per
\* node id, and only when its own first terminal event arrives.
C22_SyntheticSkipOnlyForUnseen ==
  \A n \in BoundNodes(g) : \A r \in Runs :
    LET b == bs[n][r]
        issued == Range(b.skipped)
    IN /\ issued \subseteq schemaSourceNodeIds(g, n)
       /\ issued \cap b.snrs = {}
       /\ \A i, j \in DOMAIN b.skipped : b.skipped[i] = b.skipped[j] => i = j
       /\ issued # {} => Terminals(r, n) # {}
       /\ \A w \in schemaSourceNodeIds(g, n) :
            (\E i \in Terminals(r, w) : \E j \in Terminals(r, n) :
               i < j /\ \A l \in Terminals(r, n) : j <= l) => w \notin issued
       /\ stack = <<>> =>
            /\ \A w \in issued :
                 \E i \in Terminals(r, w) :
                   log[i].type = "RunSkipped" /\ First(Terminals(r, n)) < i
            /\ (b.ncDone /\ schemaSourceNodeIds(g, n) # {}) =>
                 issued = schemaSourceNodeIds(g, n) \ b.snrs

\* chat is bound to the schemas of weather and search; weather completed before
\* chat did and search did not run: chat issued RunSkipped for search alone
C22_Witness ==
  /\ g = "toolbox" /\ Quiescent
  /\ bs["chat"][1].skipped = <<"search">>
  /\ \E i \in Completions(1, "weather") : \E j \in Completions(1, "chat") : i < j
  /\ \A i \in Terminals(1, "weather") : log[i].type = "RunCompleted"

\* the target fields input holds
Targets(input) == {input[k].k : k \in DOMAIN input}

\* C23: an Output event of a producer is fanned out into one mapped input per
\* matching (sourceField -> targetField) mapping: when two different target
\* fields of a consumer are bound to the same output field of the same
\* producer, one Output event carrying the field delivers the value to both
\* target fields, and the consumer's count reaches the number of its output
\* mappings.
C23_FanOutPerMapping ==
  \A n \in BoundNodes(g) : \A r \in Runs :
    \A e1, e2 \in Range(edges(g, n)) :
      (/\ e1.target # e2.target /\ ~e1.isArray /\ ~e2.isArray
       /\ e1.provs = e2.provs /\ e1.provs[1].type = "output"
       /\ Publications(r, e1.provs[1].node, e1.provs[1].field) # {}
       /\ stack = <<>>) =>
        /\ {e1.target, e2.target} \subseteq Targets(bs[n][r].acc.input)
        /\ Deliveries(r, n, e1.target) # {} /\ Deliveries(r, n, e2.target) # {}
        /\ Len(outputSourceProviders(g, n)) = 2 => bs[n][r].acc.count = 2

\* the terminal events of run r published by the output producers of node n
ProducerTerminals(r, n) ==
  {i \in DOMAIN log : IsTerminal(log[i]) /\ log[i].run = r
                       /\ log[i].node \in uniqueOutputProviderNodes(g, n)}

\* the (event, key) pairs of the Output events of run r that have a mapping to a
\* target field of n and were published before every terminal event of a producer
MappedBefore(r, n) ==
  UNION {{<<i, k>> : k \in {l \in DOMAIN log[i].output :
                               FieldMapping(g, n, log[i].node, log[i].output[l][1]) # ""}} :
         i \in {x \in DOMAIN log :
                  /\ log[x].type = "Output" /\ log[x].run = r
                  /\ log[x].node \in uniqueOutputProviderNodes(g, n)
                  /\ \A t \in ProducerTerminals(r, n) : x < t}}

\* the number of output values an input holds
OutputValues(input) ==
  Len(Flatten([i \in DOMAIN input |->
                 SelectSeq(input[i].v, LAMBDA x : x.t \notin {"schema", "render"})]))

\* C24: for a consumer bound to output sources, no value of an Output event
\* published after the first RunCompleted/RunSkipped of any of its output
\* producers in the run enters its accumulator or is delivered to
\* onInputEvent; the mapped output values it accepts in a run never exceed the
\* number of its output mappings; output fields that match no binding are
\* dropped and use none of this capacity.
C24_OutputsCutOffAndCapped ==
  \A n \in BoundNodes(g) : \A r \in Runs :
    LET b == bs[n][r]
        cap == Len(outputSourceProviders(g, n))
        before == Cardinality(MappedBefore(r, n))
    IN cap > 0 =>
         /\ b.taken.ops <= cap /\ b.taken.ops <= before
         /\ stack = <<>> => b.taken.ops = (IF before < cap THEN before ELSE cap)
         /\ OutputValues(b.acc.input) <= b.taken.ops
         /\ \A i \in DOMAIN b.flds : OutputValues(b.flds[i].acc.input) <= b.taken.ops
         /\ \A c \in DOMAIN calls :
              (calls[c].node = n /\ calls[c].run = r) =>
                OutputValues(calls[c].input) <= b.taken.ops

\* A1 completed without publishing y and A2 published y afterwards: C took no
\* value in the run
C24_Witness ==
  /\ g = "array" /\ stack = <<>>
  /\ \E t \in Completions(1, "A1") : \E i \in Publications(1, "A2", "y") : t < i
  /\ Publications(1, "A1", "y") = {}
  /\ bs["C"][1].taken.ops = 0 /\ bs["C"][1].acc.input = <<>>

\* ---------------------------------------------------------------------------
\* the subscriptions to the values of the render provider of node n
Values(n) ==
  UNION {Range(conns[j].vals) : j \in {k \in DOMAIN conns : conns[k].prov = n}}

\* the position of a Render event in the stream (every update has data of its own)
Pos(e) == CHOOSE p \in DOMAIN log : log[p] = e

\* C25: the value a node's render provider emits for run r delivers only Render
\* events of that node and run, in publication order, and none published after a
\* RunCompleted or RunSkipped of the node for r; the provider emits at most one
\* {run, value} item per run id
C25_RenderValueCutAtTerminal ==
  /\ \A n \in Nodes(g) : \A v \in Values(n) :
       /\ \A i \in DOMAIN v.got :
            /\ v.got[i].type = "Render" /\ v.got[i].node = n /\ v.got[i].run = v.run
            /\ \A q \in Terminals(v.run, n) : Pos(v.got[i]) < q
       /\ \A i, k \in DOMAIN v.got : i < k => Pos(v.got[i]) < Pos(v.got[k])
  /\ \A j, k \in DOMAIN conns :
       j # k /\ conns[j].prov = conns[k].prov => conns[j].groups \cap conns[k].groups = {}

\* ---------------------------------------------------------------------------
\* the connections of merged providers
MergedConns == {k \in DOMAIN conns : IsMerged(conns[k].prov)}

\* the subscriptions with which the merged value of connection k and run r listens to
\* the values of its providers
Feeders(k, r) ==
  UNION {{v \in Range(conns[j].vals) : v.to = k /\ v.run = r} : j \in DOMAIN conns}

\* the place of event e in the sequence q
IndexIn(q, e) == CHOOSE i \in DOMAIN q : q[i] = e

\* the Render events node n published in run r before its first terminal event
FirstRenders(r, n) ==
  {p \in DOMAIN log :
     /\ log[p].type = "Render" /\ log[p].node = n /\ log[p].run = r
     /\ \A q \in Terminals(r, n) : p < q}

NoOutputSource(gr) == {n \in BoundNodes(gr) : outputSourceProviders(gr, n) = <<>>}

\* the calls of invoke made on node n with run r
InvokeCalls(r, n) == {i \in DOMAIN invs : invs[i].node = n /\ invs[i].run = r}

\* C27: a node bound to no output source is never executed and never skipped by its
\* own binding, whatever schema or render inputs it gets: every execute of it was
\* started by a call of invoke, every RunCompleted of it ends such an execute, and
\* every RunSkipped of it was issued by the binding of a consumer of its schema
C27_NoOutputSourceNeverFires ==
  \A n \in NoOutputSource(g) : \A r \in Runs :
    /\ bs[n][r].fires = <<>>
    /\ Cardinality(Started(r, n)) <= Cardinality(InvokeCalls(r, n))
    /\ \A p \in Terminals(r, n) :
         \/ /\ log[p].type = "RunCompleted"
            /\ \E i \in Started(r, n) : gens[i].end = p
         \/ /\ log[p].type = "RunSkipped"
            /\ \E m \in BoundNodes(g) :
                 n \in schemaSourceNodeIds(g, m) /\ n \in Range(bs[m][r].skipped)

\* the run is at rest: user got its render input and weather its schema input, chat
\* completed without calling weather and skipped it, weather's binding skipped search
\* (bound to nothing), and none of the three was fired
C27_Witness ==
  /\ g = "idle" /\ Quiescent
  /\ \E i \in DOMAIN calls : calls[i].node = "user"
  /\ \E i \in DOMAIN calls : calls[i].node = "weather"
  /\ \E p \in Terminals(1, "weather") : log[p].type = "RunSkipped"
  /\ \E p \in Terminals(1, "search") : log[p].type = "RunSkipped"
  /\ \A n \in {"user", "weather", "search"} : bs[n][1].fires = <<>>

\* ---------------------------------------------------------------------------
\* the providers of a bind call that are literals, and the target fields bound to them
IsLiteral(p) == p.type \notin {"output", "schema", "render"}
LiteralFields(b) ==
  {b.edges[i].target : i \in {k \in DOMAIN b.edges :
                                \E l \in DOMAIN b.edges[k].provs : IsLiteral(b.edges[k].provs[l])}}

\* the output providers of a bind call
OutputEdges(b) ==
  UNION {{b.edges[i].provs[k] : k \in {l \in DOMAIN b.edges[i].provs :
                                         b.edges[i].provs[l].type = "output"}} :
         i \in DOMAIN b.edges}

\* C28: a target field bound to a literal is no output, schema or render source and
\* is not counted in the expected input count; it neither delays nor prevents the
\* firing of the node (once every output provider has published its field just once
\* and completed, the node has been executed); the literal is in no input passed to
\* onInputEvent or execute
C28_LiteralEdgeIsInert ==
  \A i \in DOMAIN Binds(g) :
    LET b == Binds(g)[i]  n == b.node
    IN LiteralFields(b) # {} =>
         /\ n \in BoundNodes(g) =>
              /\ \A p \in Range(outputSourceProviders(g, n)) \cup Range(schemaSources(g, n))
                          \cup Range(renderSources(g, n)) :
                   p.targetField \notin LiteralFields(b)
              /\ ExpectedCount(g, n) = Cardinality(OutputEdges(b))
         /\ \A r \in 1..runs :
              (/\ stack = <<>>
               /\ \A p \in OutputEdges(b) :
                    /\ Cardinality(Publications(r, p.node, p.field)) = 1
                    /\ \E t \in Terminals(r, p.node) :
                         \A q \in Publications(r, p.node, p.field) : q < t)
              => Started(r, n) # {}
         /\ \A k \in DOMAIN calls :
              calls[k].node = n =>
                \A e \in DOMAIN calls[k].input : calls[k].input[e].k \notin LiteralFields(b)
         /\ \A k \in DOMAIN gens :
              gens[k].node = n =>
                \A e \in DOMAIN gens[k].input : gens[k].input[e].k \notin LiteralFields(b)
====
